---- MODULE Spec2Model ----
(***************************************************************************)
(* Model of the brokerage-note extraction engine (api-python/parsers).     *)
(*                                                                         *)
(* A text is a sequence of characters (one-character strings), a number is *)
(* a fixed-point integer counting hundredths, an optional value is a       *)
(* sequence of length 0 (None) or 1.  One parse request runs from the      *)
(* adapter's entry point to the returned ParseResponse as a sequence of    *)
(* steps; the request (adapter, decoder outcome, pages, flags) is drawn in *)
(* Init.  UploadSpec puts the endpoints of main.py in front of the entry   *)
(* points; NumSpec and ClassSpec run the numeric conversions and the asset *)
(* classifiers on their own; ProcessSpec lets one process serve several    *)
(* requests in turn; ResolveSpec runs the symbol resolution and the Rico   *)
(* strategy of br_nota on one line; LatchSpec runs the row loop of         *)
(* ibkr.parse_pdf one row at a time.                                       *)
(***************************************************************************)
EXTENDS Integers, Sequences, FiniteSets, TLC

VARIABLES
    adapter,        \* the entry point serving the request
    doc,            \* the request: decoder outcome, pages or CSV rows, debug flag
    pc,             \* position of the parse inside the entry point
    full_text,      \* full_text accumulated over the pages
    all_tables,     \* all_tables accumulated over the pages
    broker,         \* Optional institution label
    note_date,      \* Optional document date
    note_number,    \* Optional note number
    raw_operations, \* candidates of the strategy chain
    operations,     \* validated Operation models
    fees,           \* Optional Fees
    warnings,       \* the warnings list of this parse
    calls,          \* the steps this parse has performed, in order
    exc,            \* Optional description of the exception in flight
    result,         \* Optional ParseResponse returned to the caller
    upload,         \* Optional uploaded file of the HTTP request: name and size
    status,         \* Optional HTTP response: status code and detail
    globals,        \* the module-level lookup tables of the process
    served          \* the requests this process served before, with their results

vars == <<adapter, doc, pc, full_text, all_tables, broker, note_date, note_number,
          raw_operations, operations, fees, warnings, calls, exc, result, upload, status,
          globals, served>>

----------------------------------------------------------------------------
(* Characters and strings *)

NL == "\n"
SP == " "
TAB == "\t"
CCedil == "c-cedilla"
ATilde == "a-tilde"
UAcute == "u-acute"
AAcute == "a-acute"

UpperSeq == <<"A","B","C","D","E","F","G","H","I","J","K","L","M",
              "N","O","P","Q","R","S","T","U","V","W","X","Y","Z">>
LowerSeq == <<"a","b","c","d","e","f","g","h","i","j","k","l","m",
              "n","o","p","q","r","s","t","u","v","w","x","y","z">>
DigitSeq == <<"0","1","2","3","4","5","6","7","8","9">>

Range(f) == {f[i] : i \in DOMAIN f}
Upper == Range(UpperSeq)
LowerLetters == Range(LowerSeq)
Digit == Range(DigitSeq)
Space == {SP, NL, TAB}
WordChar == Upper \cup LowerLetters \cup Digit \cup {"_", CCedil, ATilde, UAcute, AAcute}

None == <<>>
Some(v) == <<v>>

\* the least element of a non-empty set of integers
Least(S) == CHOOSE m \in S : \A n \in S : m <= n
\* the greatest element of a non-empty set of integers
Greatest(S) == CHOOSE m \in S : \A n \in S : m >= n

\* str.lower() on one character
LowerChar(c) ==
    IF c \in Upper THEN LowerSeq[CHOOSE i \in DOMAIN UpperSeq : UpperSeq[i] = c] ELSE c

\* str.lower()
Lower(s) == [i \in DOMAIN s |-> LowerChar(s[i])]

\* s[i:i+len(p)] == p
OccursAt(p, s, i) ==
    /\ i + Len(p) - 1 <= Len(s)
    /\ \A j \in 1..Len(p) : s[i + j - 1] = p[j]

\* p in s
Contains(s, p) == \E i \in 1..(Len(s) + 1) : OccursAt(p, s, i)

\* s[a:] from the 1-based position a
From(s, a) == SubSeq(s, a, Len(s))

RECURSIVE SplitOn(_, _)
\* str.split(sep) for a one-character separator
SplitOn(s, sep) ==
    IF \A i \in DOMAIN s : s[i] # sep THEN <<s>>
    ELSE <<SubSeq(s, 1, Least({k \in DOMAIN s : s[k] = sep}) - 1)>>
         \o SplitOn(From(s, Least({k \in DOMAIN s : s[k] = sep}) + 1), sep)

RECURSIVE SplitWS(_)
\* str.split(): split on runs of whitespace, no empty parts
SplitWS(s) ==
    IF \A i \in DOMAIN s : s[i] \in Space THEN <<>>
    ELSE IF s[1] \in Space THEN SplitWS(Tail(s))
    ELSE IF \A i \in DOMAIN s : s[i] \notin Space THEN <<s>>
    ELSE <<SubSeq(s, 1, Least({k \in DOMAIN s : s[k] \in Space}) - 1)>>
         \o SplitWS(From(s, Least({k \in DOMAIN s : s[k] \in Space})))

\* str.strip()
Strip(s) ==
    IF \A i \in DOMAIN s : s[i] \in Space THEN <<>>
    ELSE SubSeq(s, Least({k \in DOMAIN s : s[k] \notin Space}),
                   Greatest({k \in DOMAIN s : s[k] \notin Space}))

RECURSIVE JoinWith(_, _)
\* sep.join(parts)
JoinWith(parts, sep) ==
    IF parts = <<>> THEN <<>>
    ELSE IF Len(parts) = 1 THEN parts[1]
    ELSE parts[1] \o sep \o JoinWith(Tail(parts), sep)

RECURSIVE Flatten(_)
\* concatenation of a sequence of sequences
Flatten(ss) == IF ss = <<>> THEN <<>> ELSE ss[1] \o Flatten(Tail(ss))

\* s.replace(c, r) for a one-character c and a replacement string r
Replace(s, c, r) == Flatten([i \in DOMAIN s |-> IF s[i] = c THEN r ELSE <<s[i]>>])

RECURSIVE Filter(_, _)
\* [x for x in s if x in S]
Filter(s, S) == IF s = <<>> THEN <<>>
                ELSE (IF s[1] \in S THEN <<s[1]>> ELSE <<>>) \o Filter(Tail(s), S)

\* the first element of s that is in S, Some or None
FirstIn(s, S) == IF \A i \in DOMAIN s : s[i] \notin S THEN None
                 ELSE Some(s[Least({i \in DOMAIN s : s[i] \in S})])

RECURSIVE Present(_)
\* the elements of a sequence of Optional values that are present, unwrapped
Present(os) == IF os = <<>> THEN <<>>
               ELSE (IF os[1] = None THEN <<>> ELSE os[1]) \o Present(Tail(os))

\* s[:n]
Prefix(s, n) == SubSeq(s, 1, IF Len(s) < n THEN Len(s) ELSE n)

----------------------------------------------------------------------------
(* Regular expressions of module re: a pattern is a sequence of items, each *)
(* a character class with a greedy repetition lo..hi, a word boundary \b or *)
(* the end anchor $; an expression is a sequence of alternative patterns.  *)

Many == 1000

Cls(S, lo, hi) == [k |-> "cls", set |-> S, lo |-> lo, hi |-> hi]
One(S) == Cls(S, 1, 1)
Plus(S) == Cls(S, 1, Many)
Star(S) == Cls(S, 0, Many)
Opt(S) == Cls(S, 0, 1)
WB == [k |-> "wb", set |-> {}, lo |-> 0, hi |-> 0]
EOL == [k |-> "eol", set |-> {}, lo |-> 0, hi |-> 0]
Lit(str) == [i \in DOMAIN str |-> One({str[i]})]

IsWordAt(s, i) == i >= 1 /\ i <= Len(s) /\ s[i] \in WordChar
IsBoundary(s, i) == IsWordAt(s, i - 1) # IsWordAt(s, i)

RECURSIVE RunLen(_, _, _, _)
\* how many characters of S follow from position i, at most hi
RunLen(s, i, S, hi) ==
    IF hi = 0 \/ i > Len(s) \/ s[i] \notin S THEN 0
    ELSE 1 + RunLen(s, i + 1, S, hi - 1)

\* a path extended to the left by the start position i, <<>> staying <<>>
Cons(i, r) == IF r = <<>> THEN <<>> ELSE <<i>> \o r

RECURSIVE MatchFrom(_, _, _, _)
RECURSIVE TryCounts(_, _, _, _, _)

\* the first item from k on that is not one single character, Len(p) + 1 when
\* every item from k on is
FixedEnd(p, k) ==
    Least({j \in k..(Len(p) + 1) :
              j > Len(p) \/ p[j].k # "cls" \/ p[j].lo # 1 \/ p[j].hi # 1})

\* the n single-character items from k on match the n characters from i on
FixedMatch(p, k, s, i, n) ==
    \A j \in 0..(n - 1) : i + j <= Len(s) /\ s[i + j] \in p[k + j].set

\* a path extended to the left by the positions i, .., i+n-1, <<>> staying <<>>
ConsRun(i, n, r) == IF r = <<>> THEN <<>> ELSE [j \in 1..n |-> i + j - 1] \o r

\* a run of n single-character items has one way to match: each item its
\* character, then the rest of the pattern
MatchFixed(p, k, s, i, n) ==
    IF FixedMatch(p, k, s, i, n) THEN ConsRun(i, n, MatchFrom(p, k + n, s, i + n))
    ELSE <<>>

\* items k.. of p matched at position i of s, by backtracking with greedy
\* preference: the positions at which items k, k+1, .. start, then the end;
\* <<>> when there is no match
MatchFrom(p, k, s, i) ==
    IF k > Len(p) THEN <<i>>
    ELSE IF p[k].k = "wb" THEN
        (IF IsBoundary(s, i) THEN Cons(i, MatchFrom(p, k + 1, s, i)) ELSE <<>>)
    ELSE IF p[k].k = "eol" THEN
        (IF i = Len(s) + 1 \/ (i = Len(s) /\ s[i] = NL)
         THEN Cons(i, MatchFrom(p, k + 1, s, i)) ELSE <<>>)
    ELSE IF p[k].lo = 1 /\ p[k].hi = 1 THEN MatchFixed(p, k, s, i, FixedEnd(p, k) - k)
    ELSE TryCounts(p, k, s, i, RunLen(s, i, p[k].set, p[k].hi))

\* item k repeated n times with the rest of the pattern matching as r, or
\* else backtracking to n-1 repetitions
TryRest(p, k, s, i, n, r) ==
    IF r # <<>> THEN <<i>> \o r ELSE TryCounts(p, k, s, i, n - 1)

\* item k repeated n times, then n-1, .. down to its lower bound
TryCounts(p, k, s, i, n) ==
    IF n < p[k].lo THEN <<>>
    ELSE TryRest(p, k, s, i, n, MatchFrom(p, k + 1, s, i + n))

NoMatch == [alt |-> 0, path |-> <<>>]

RECURSIVE MatchAlts(_, _, _, _)
\* alternative a matching with path r, or else the next alternative
AltOr(e, a, s, i, r) ==
    IF r # <<>> THEN [alt |-> a, path |-> r] ELSE MatchAlts(e, a + 1, s, i)

\* the first alternative of expression e, from alternative a on, that matches
\* at position i: [alt, path], NoMatch when none does
MatchAlts(e, a, s, i) ==
    IF a > Len(e) THEN NoMatch
    ELSE AltOr(e, a, s, i, MatchFrom(e[a], 1, s, i))

\* the positions from i on at which expression e matches
MatchPositions(e, s, i) ==
    {j \in i..(Len(s) + 1) : MatchAlts(e, 1, s, j) # NoMatch}

\* the match at the least of the positions, NoMatch when there is none
LeftmostOf(e, s, positions) ==
    IF positions = {} THEN NoMatch ELSE MatchAlts(e, 1, s, Least(positions))

\* re.search from position i on: the leftmost match
SearchFrom(e, s, i) == LeftmostOf(e, s, MatchPositions(e, s, i))

\* re.search(e, s), re.match(e, s)
Search(e, s) == SearchFrom(e, s, 1)
Match(e, s) == MatchAlts(e, 1, s, 1)
Matched(m) == m.path # <<>>
MStart(m) == m.path[1]
MEnd(m) == m.path[Len(m.path)]
\* match.group(0)
Group0(s, m) == SubSeq(s, MStart(m), MEnd(m) - 1)
\* the text matched by items a..b of the matching alternative
GroupItems(s, m, a, b) == SubSeq(s, m.path[a], m.path[b + 1] - 1)
\* match.group(1) when the group is the last n items of the pattern
LastItems(s, m, e, n) == GroupItems(s, m, Len(e[m.alt]) - n + 1, Len(e[m.alt]))

RECURSIVE FindAllFrom(_, _, _)
RECURSIVE FindAllNext(_, _, _)
\* re.findall(e, s) for an expression without groups, from position i on
FindAllFrom(e, s, i) == FindAllNext(e, s, SearchFrom(e, s, i))
\* the match m, then the search resumed after it
FindAllNext(e, s, m) ==
    IF ~Matched(m) THEN <<>>
    ELSE <<Group0(s, m)>> \o
         FindAllFrom(e, s, IF MEnd(m) = MStart(m) THEN MEnd(m) + 1 ELSE MEnd(m))

FindAll(e, s) == FindAllFrom(e, s, 1)

----------------------------------------------------------------------------
(* Numbers: float as a fixed-point integer of hundredths *)

Scale == 10 * 10

DigitVal(c) == (CHOOSE i \in DOMAIN DigitSeq : DigitSeq[i] = c) - 1

RECURSIVE DigitsToInt(_)
DigitsToInt(ds) ==
    IF ds = <<>> THEN 0 ELSE DigitsToInt(SubSeq(ds, 1, Len(ds) - 1)) * 10 + DigitVal(ds[Len(ds)])

\* the value of the unsigned decimal with integer digits ip and fraction
\* digits fp; digits after the second decimal are dropped
Magnitude(ip, fp) == DigitsToInt(ip) * Scale + DigitsToInt(SubSeq(fp \o <<"0", "0">>, 1, 2))

\* float(body) for an unsigned string with periods at the positions dots:
\* Some(value), None for ValueError
ParseUnsigned(body, dots) ==
    IF /\ Cardinality(dots) <= 1
       /\ \A i \in DOMAIN body : body[i] \in Digit \cup {"."}
       /\ Len(body) - Cardinality(dots) >= 1
    THEN IF dots = {} THEN Some(Magnitude(body, <<>>))
         ELSE Some(Magnitude(SubSeq(body, 1, Least(dots) - 1), From(body, Least(dots) + 1)))
    ELSE None

Negate(o) == IF o = None THEN None ELSE Some(0 - o[1])

\* float(s) for a string of sign, digits and periods: Some(value), or None when
\* float raises ValueError
ParseFloat(s) ==
    IF s # <<>> /\ s[1] = "-"
    THEN Negate(ParseUnsigned(Tail(s), {i \in DOMAIN Tail(s) : Tail(s)[i] = "."}))
    ELSE ParseUnsigned(s, {i \in DOMAIN s : s[i] = "."})

Abs(v) == IF v < 0 THEN 0 - v ELSE v
\* a * b of two non-negative numbers
MulAbs(a, b) == (a \div Scale) * b + ((a % Scale) * b) \div Scale
\* a * b
Mul(a, b) == IF (a < 0) # (b < 0) THEN 0 - MulAbs(Abs(a), Abs(b)) ELSE MulAbs(Abs(a), Abs(b))
\* a / b for a >= 0 and b > 0, rounded to the hundredth
Div(a, b) == (2 * a * Scale + b) \div (2 * b)

RECURSIVE SumSeq(_)
SumSeq(s) == IF s = <<>> THEN 0 ELSE s[1] + SumSeq(Tail(s))

\* max(s), min(s)
MaxSeq(s) == Greatest(Range(s))
MinSeq(s) == Least(Range(s))

RECURSIVE Sorted(_)
\* sorted(s)
Sorted(s) ==
    IF s = <<>> THEN <<>>
    ELSE <<MinSeq(s)>> \o
         Sorted([i \in 1..(Len(s) - 1) |->
                    IF i < Least({k \in DOMAIN s : s[k] = MinSeq(s)}) THEN s[i] ELSE s[i + 1]])

\* [v for v in s if v > 0]
Positive(s) == Filter(s, {v \in Range(s) : v > 0})

----------------------------------------------------------------------------
(* models/schemas.py *)

\* a warning: a fixed message, followed by the description of a fault if any
W(text) == [text |-> text, detail |-> <<>>]
WFault(prefix, desc) == [text |-> prefix, detail |-> desc]

\* ParseResponse(): the defaults of every field
Response0 ==
    [success |-> TRUE, broker |-> None, note_date |-> None, note_number |-> None,
     operations |-> <<>>, fees |-> None, net_value |-> None, currency |-> "BRL",
     raw_text |-> None, warnings |-> <<>>]

\* Fees(): every field 0
Fees0 == [brokerage |-> 0, settlement |-> 0, emoluments |-> 0, custody |-> 0,
          iss |-> 0, irrf |-> 0, other |-> 0, total |-> 0]

\* Operation(...): the constraints quantity > 0 and price >= 0 of the model
OperationValid(op) == op.quantity > 0 /\ op.price >= 0
\* str(e) of the pydantic ValidationError raised by Operation(...)
ValidationError == <<"v","a","l","i","d","a","t","i","o","n",SP,"e","r","r","o","r",SP,"f","o","r",SP,"O","p","e","r","a","t","i","o","n">>

\* str(e) of the ValueError raised by float()
FloatError == <<"c","o","u","l","d",SP,"n","o","t",SP,"c","o","n","v","e","r","t",SP,"s","t","r","i","n","g",SP,"t","o",SP,"f","l","o","a","t">>

\* sum(op.total for op in operations)
Totals(ops) == SumSeq([i \in DOMAIN ops |-> ops[i].total])

\* the boundary handler returning the defaults of ParseResponse, the fault
\* swallowed
FaultSwallowed(prefix, desc) == Response0

\* the response of an except Exception clause at the adapter boundary:
\* ParseResponse(success=False, warnings=[f"<prefix>{str(e)}"])
FaultResponse(prefix, desc) ==
    [Response0 EXCEPT !.success = FALSE, !.warnings = <<WFault(prefix, desc)>>]

----------------------------------------------------------------------------
(* Dates: datetime.strptime and strftime *)

IsLeap(y) == (y % 4 = 0 /\ y % 100 # 0) \/ y % 400 = 0
DaysIn(m, y) ==
    IF m = 2 THEN (IF IsLeap(y) THEN 29 ELSE 28)
    ELSE IF m \in {4, 6, 9, 11} THEN 30 ELSE 31

\* the date of day d, month m, year y: Some([y, m, d]), None for ValueError
MkDate(y, m, d) ==
    IF y >= 1 /\ m >= 1 /\ m <= 12 /\ d >= 1 /\ d <= DaysIn(m, y)
    THEN Some([y |-> y, m |-> m, d |-> d]) ELSE None

AllDigits(s) == \A i \in DOMAIN s : s[i] \in Digit

\* three fields of digits, the first two of one or two digits, the last of ylen
DateFields(f, a, b, c) ==
    /\ Len(f) = 3
    /\ \A i \in 1..3 : AllDigits(f[i])
    /\ Len(f[1]) \in a /\ Len(f[2]) \in b /\ Len(f[3]) \in c

\* datetime.strptime(s, "%d/%m/%Y") on the fields of s
dmY(f) == IF DateFields(f, 1..2, 1..2, {4})
          THEN MkDate(DigitsToInt(f[3]), DigitsToInt(f[2]), DigitsToInt(f[1])) ELSE None
\* "%m/%d/%Y"
mdY(f) == IF DateFields(f, 1..2, 1..2, {4})
          THEN MkDate(DigitsToInt(f[3]), DigitsToInt(f[1]), DigitsToInt(f[2])) ELSE None
\* a two-digit year is 2000+yy below 69 and 1900+yy from 69 on
Century(yy) == IF yy < 69 THEN 2000 + yy ELSE 1900 + yy
\* "%m/%d/%y"
mdy(f) == IF DateFields(f, 1..2, 1..2, {2})
          THEN MkDate(Century(DigitsToInt(f[3])), DigitsToInt(f[1]), DigitsToInt(f[2])) ELSE None
\* "%Y-%m-%d"
Ymd(f) == IF DateFields(f, {4}, 1..2, 1..2)
          THEN MkDate(DigitsToInt(f[1]), DigitsToInt(f[2]), DigitsToInt(f[3])) ELSE None

strptime_dmY(s) == dmY(SplitOn(s, "/"))
strptime_mdY(s) == mdY(SplitOn(s, "/"))
strptime_mdy(s) == mdy(SplitOn(s, "/"))
strptime_Ymd(s) == Ymd(SplitOn(s, "-"))

RECURSIVE IntToDigits(_)
IntToDigits(n) == IF n < 10 THEN <<DigitSeq[n + 1]>>
                  ELSE IntToDigits(n \div 10) \o <<DigitSeq[(n % 10) + 1]>>
TwoDigits(n) == <<DigitSeq[(n \div 10) + 1], DigitSeq[(n % 10) + 1]>>
\* "%Y" pads the year to four digits
FourDigits(n) == TwoDigits(n \div 100) \o TwoDigits(n % 100)
\* date.strftime("%Y-%m-%d")
strftime_Ymd(dt) == FourDigits(dt.y) \o <<"-">> \o TwoDigits(dt.m) \o <<"-">> \o TwoDigits(dt.d)
\* d.strftime("%Y-%m-%d") if d else None
FormatOpt(d) == IF d = None THEN None ELSE Some(strftime_Ymd(d[1]))

\* a if a is present, otherwise b
OrElse(a, b) == IF a # None THEN a ELSE b

----------------------------------------------------------------------------
(* parsers/br_nota.py *)

BROKER_PATTERNS == <<
    [broker |-> "Clear", patterns |-> <<<<"c","l","e","a","r",SP,"c","o","r","r","e","t","o","r","a">>, <<"c","l","e","a","r",SP,"s",".","a">>, <<"c","l","e","a","r",SP,"c","t","v","m">>, <<"c","l","e","a","r",SP,"-">>>>],
    [broker |-> "XP", patterns |-> <<<<"x","p",SP,"i","n","v","e","s","t","i","m","e","n","t","o","s">>, <<"x","p",SP,"c","c","t","v","m">>, <<"x","p",SP,"s",".","a",".">>, <<"x","p",SP,"s","/","a">>>>],
    [broker |-> "Rico", patterns |-> <<<<"r","i","c","o",SP,"i","n","v","e","s","t","i","m","e","n","t","o","s">>, <<"r","i","c","o",SP,"c","t","v","m">>, <<"r","i","c","o",SP,"s",".","a">>, <<"r","i","c","o",SP,"-">>,
                                       <<"r","i","c","o",SP,"s","/","a">>, <<"r","i","c","o","n","n","e","c","t">>, <<"r","i","c","o",SP,"c","o","r","r","e","t","o","r","a">>>>],
    [broker |-> "BTG Pactual", patterns |-> <<<<"b","t","g",SP,"p","a","c","t","u","a","l">>, <<"b","t","g",SP,"c","t","v","m">>>>],
    [broker |-> "Nuinvest", patterns |-> <<<<"n","u","i","n","v","e","s","t">>, <<"e","a","s","y","n","v","e","s","t">>>>],
    [broker |-> "Inter", patterns |-> <<<<"i","n","t","e","r",SP,"d","t","v","m">>, <<"b","a","n","c","o",SP,"i","n","t","e","r">>, <<"i","n","t","e","r",SP,"i","n","v","e","s","t">>, <<"i","n","t","e","r",SP,"s",".","a">>,
                                        <<"i","n","t","e","r","m","e","d","i","u","m">>>>],
    [broker |-> "Genial", patterns |-> <<<<"g","e","n","i","a","l",SP,"i","n","v","e","s","t","i","m","e","n","t","o","s">>>>],
    [broker |-> "Modal", patterns |-> <<<<"m","o","d","a","l",SP,"d","t","v","m">>>>],
    [broker |-> "Agora", patterns |-> <<<<"a","g","o","r","a",SP,"c","t","v","m">>, <<AAcute,"g","o","r","a">>>>] >>

BR_TICKER_PATTERN == << <<WB, Cls(Upper, 4, 6), Cls(Digit, 1, 2), Opt({"F"}), WB>> >>

FII_PATTERN == << <<Cls(Upper, 4, 4), One({"1"}), One({"1"}), EOL>> >>

BR_ETFS == {<<"B","O","V","A","1","1">>, <<"I","V","V","B","1","1">>, <<"S","M","A","L","1","1">>, <<"H","A","S","H","1","1">>, <<"D","I","V","O","1","1">>, <<"B","O","V","B","1","1">>, <<"E","C","O","O","1","1">>}

STOCK_NAME_TO_TICKER == <<
    [name |-> <<"c","e","m","i","g">>, ticker |-> <<"C","M","I","G","4">>],
    [name |-> <<"t","a","e","s","a">>, ticker |-> <<"T","A","E","E","1","1">>],
    [name |-> <<"e","l","e","t","r","o","b","r","a","s">>, ticker |-> <<"E","L","E","T","3">>],
    [name |-> <<"c","o","p","e","l">>, ticker |-> <<"C","P","L","E","6">>],
    [name |-> <<"e","n","g","i","e">>, ticker |-> <<"E","G","I","E","3">>],
    [name |-> <<"e","n","e","r","g","i","s","a">>, ticker |-> <<"E","N","G","I","1","1">>],
    [name |-> <<"e","q","u","a","t","o","r","i","a","l">>, ticker |-> <<"E","Q","T","L","3">>],
    [name |-> <<"c","p","f","l">>, ticker |-> <<"C","P","F","E","3">>],
    [name |-> <<"i","t","a","u">>, ticker |-> <<"I","T","U","B","4">>],
    [name |-> <<"i","t","a","u","s","a">>, ticker |-> <<"I","T","S","A","4">>],
    [name |-> <<"b","r","a","d","e","s","c","o">>, ticker |-> <<"B","B","D","C","4">>],
    [name |-> <<"b","a","n","c","o",SP,"d","o",SP,"b","r","a","s","i","l">>, ticker |-> <<"B","B","A","S","3">>],
    [name |-> <<"s","a","n","t","a","n","d","e","r">>, ticker |-> <<"S","A","N","B","1","1">>],
    [name |-> <<"b","t","g">>, ticker |-> <<"B","P","A","C","1","1">>],
    [name |-> <<"p","e","t","r","o","b","r","a","s">>, ticker |-> <<"P","E","T","R","4">>],
    [name |-> <<"v","a","l","e">>, ticker |-> <<"V","A","L","E","3">>],
    [name |-> <<"g","e","r","d","a","u">>, ticker |-> <<"G","G","B","R","4">>],
    [name |-> <<"c","s","n">>, ticker |-> <<"C","S","N","A","3">>],
    [name |-> <<"u","s","i","m","i","n","a","s">>, ticker |-> <<"U","S","I","M","5">>],
    [name |-> <<"s","u","z","a","n","o">>, ticker |-> <<"S","U","Z","B","3">>],
    [name |-> <<"k","l","a","b","i","n">>, ticker |-> <<"K","L","B","N","1","1">>],
    [name |-> <<"a","m","b","e","v">>, ticker |-> <<"A","B","E","V","3">>],
    [name |-> <<"m","a","g","a","z","i","n","e",SP,"l","u","i","z","a">>, ticker |-> <<"M","G","L","U","3">>],
    [name |-> <<"l","o","j","a","s",SP,"r","e","n","n","e","r">>, ticker |-> <<"L","R","E","N","3">>],
    [name |-> <<"n","a","t","u","r","a">>, ticker |-> <<"N","T","C","O","3">>],
    [name |-> <<"w","e","g">>, ticker |-> <<"W","E","G","E","3">>],
    [name |-> <<"l","o","c","a","l","i","z","a">>, ticker |-> <<"R","E","N","T","3">>],
    [name |-> <<"b","3">>, ticker |-> <<"B","3","S","A","3">>],
    [name |-> <<"b","b",SP,"s","e","g","u","r","i","d","a","d","e">>, ticker |-> <<"B","B","S","E","3">>],
    [name |-> <<"j","b","s">>, ticker |-> <<"J","B","S","S","3">>],
    [name |-> <<"b","r","f">>, ticker |-> <<"B","R","F","S","3">>],
    [name |-> <<"t","o","t","v","s">>, ticker |-> <<"T","O","T","S","3">>],
    [name |-> <<"r","a","i","a",SP,"d","r","o","g","a","s","i","l">>, ticker |-> <<"R","A","D","L","3">>],
    [name |-> <<"h","a","p","v","i","d","a">>, ticker |-> <<"H","A","P","V","3">>] >>

RECURSIVE broker_lookup(_, _)
\* the loop of identify_broker from entry k on, over the lowercased text
broker_lookup(text_lower, k) ==
    IF k > Len(globals.BROKER_PATTERNS) THEN None
    ELSE IF \E j \in DOMAIN globals.BROKER_PATTERNS[k].patterns :
                Contains(text_lower, globals.BROKER_PATTERNS[k].patterns[j])
         THEN Some(globals.BROKER_PATTERNS[k].broker)
         ELSE broker_lookup(text_lower, k + 1)

RECURSIVE broker_lookup_back(_, _)
\* the loop run from the last entry of the table to the first
broker_lookup_back(text_lower, k) ==
    IF k = 0 THEN None
    ELSE IF \E j \in DOMAIN globals.BROKER_PATTERNS[k].patterns :
                Contains(text_lower, globals.BROKER_PATTERNS[k].patterns[j])
         THEN Some(globals.BROKER_PATTERNS[k].broker)
         ELSE broker_lookup_back(text_lower, k - 1)

\* identify_broker with the table read backwards
identify_broker_backwards(text) == broker_lookup_back(Lower(text), Len(globals.BROKER_PATTERNS))

\* identify_broker(text): Optional label
identify_broker(text) == broker_lookup(Lower(text), 1)

\* identify_asset_type with the fund shape tested before the allowlist
identify_asset_type_shape_first(ticker) ==
    IF Matched(Match(globals.FII_PATTERN, ticker)) THEN "reit_br"
    ELSE IF ticker \in globals.BR_ETFS THEN "etf_br"
    ELSE "stock_br"

\* identify_asset_type(ticker) of br_nota
br_identify_asset_type(ticker) ==
    IF ticker \in globals.BR_ETFS THEN "etf_br"
    ELSE IF Matched(Match(globals.FII_PATTERN, ticker)) THEN "reit_br"
    ELSE "stock_br"

DateDDMMYYYY == <<Cls(Digit, 2, 2), One({"/"}), Cls(Digit, 2, 2), One({"/"}), Cls(Digit, 4, 4)>>
LabelSep == Star({":"} \cup Space)

\* the patterns of extract_date; the date is the last five items
BR_DATE_PATTERNS == <<
    << Lit(<<"d","a","t","a",SP,"p","r","e","g",ATilde,"o">>) \o <<LabelSep>> \o DateDDMMYYYY >>,
    << Lit(<<"d","a","t","a",SP,"d","o",SP,"p","r","e","g",ATilde,"o">>) \o <<LabelSep>> \o DateDDMMYYYY >>,
    << DateDDMMYYYY >> >>

\* datetime.strptime(match.group(1), "%d/%m/%Y") inside try, None when there
\* is no match or strptime raises ValueError
br_date_of(lowered, e, m) ==
    IF Matched(m) THEN strptime_dmY(LastItems(lowered, m, e, 5)) ELSE None

RECURSIVE extract_date_from(_, _)
\* the loop of extract_date from pattern k on, over text.lower()
extract_date_from(lowered, k) ==
    IF k > Len(BR_DATE_PATTERNS) THEN None
    ELSE OrElse(br_date_of(lowered, BR_DATE_PATTERNS[k], Search(BR_DATE_PATTERNS[k], lowered)),
                extract_date_from(lowered, k + 1))

\* extract_date(text): Optional date
extract_date(text) == extract_date_from(Lower(text), 1)

BR_NOTE_PATTERNS == <<
    << Lit(<<"n","r">>) \o <<One({"."}), Star(Space)>> \o Lit(<<"n","o","t","a">>) \o <<LabelSep, Plus(Digit)>> >>,
    << Lit(<<"n","o","t","a">>) \o <<LabelSep, Plus(Digit)>> >>,
    << Lit(<<"n",UAcute,"m","e","r","o">>) \o <<LabelSep, Plus(Digit)>> >> >>

\* match.group(1) if match
br_note_of(lowered, e, m) == IF Matched(m) THEN Some(LastItems(lowered, m, e, 1)) ELSE None

RECURSIVE extract_note_number_from(_, _)
\* the loop of extract_note_number from pattern k on, over text.lower()
extract_note_number_from(lowered, k) ==
    IF k > Len(BR_NOTE_PATTERNS) THEN None
    ELSE OrElse(br_note_of(lowered, BR_NOTE_PATTERNS[k], Search(BR_NOTE_PATTERNS[k], lowered)),
                extract_note_number_from(lowered, k + 1))

\* extract_note_number(text): Optional string
extract_note_number(text) == extract_note_number_from(Lower(text), 1)

\* the Brazilian conversion n.replace('.', '').replace(',', '.')
BrClean(n) == Replace(Replace(n, ".", <<>>), ",", <<".">>)

\* " ".join(str(cell) for cell in row if cell); an empty cell stands for None and ""
RowText(row) == JoinWith(Filter(row, Range(row) \ {<<>>}), <<SP>>)
\* not row or not any(row)
RowIsEmpty(row) == \A i \in DOMAIN row : row[i] = <<>>

\* a <= k * b for positive numbers, without forming k * b
AtMostTimes(a, k, b) == a \div k < b \/ (a \div k = b /\ a % k = 0)

NUMBER_TOKENS == << <<Plus(Digit \cup {".", ","})>> >>

\* [float(n) for n in numbers]: each float(n) as Some(value) or None
BrFloats(found) == [i \in DOMAIN found |-> ParseFloat(BrClean(found[i]))]

\* ' v ' in lowered or 'venda' in lowered
SellMarker(lowered) == Contains(lowered, <<SP,"v",SP>>) \/ Contains(lowered, <<"v","e","n","d","a">>)
\* the side defaulting to sell, a marker or none
SellAlways(b) == "sell"
\* l.167-169: op_type = OperationType.BUY, OperationType.SELL under the marker
SellIf(b) == IF b THEN "sell" ELSE "buy"

\* the first whole number of float_numbers, the smallest of them when none is
br_table_quantity(float_numbers, whole) ==
    IF whole # None THEN whole[1] ELSE Sorted(float_numbers)[1]

\* l.196-210: the price and its validation
br_table_emit(ticker, op_type, quantity, total) ==
    IF total * Scale >= quantity /\ AtMostTimes(total, 100000, quantity)
    THEN << [ticker |-> ticker, type |-> op_type,
             quantity |-> quantity, price |-> Div(total, quantity), total |-> total] >>
    ELSE <<>>

\* l.177-194 over float_numbers = the positive numbers
br_table_roles(ticker, op_type, float_numbers) ==
    IF Len(float_numbers) < 2 THEN <<>>
    ELSE br_table_emit(ticker, op_type,
             br_table_quantity(float_numbers,
                               FirstIn(float_numbers, {v \in Range(float_numbers) : v % Scale = 0})),
             MaxSeq(float_numbers))

\* l.159-175: a float(n) that raises ValueError abandons the row
br_table_numbers(ticker, op_type, numbers) ==
    IF Len(numbers) < 2 \/ \E i \in DOMAIN numbers : numbers[i] = None THEN <<>>
    ELSE br_table_roles(ticker, op_type, Positive(Present(numbers)))

\* l.156-160 for a row with the ticker match m
br_table_match(row_text, m) ==
    IF ~Matched(m) THEN <<>>
    ELSE br_table_numbers(Group0(row_text, m), SellIf(SellMarker(Lower(row_text))),
                          BrFloats(FindAll(NUMBER_TOKENS, row_text)))

\* one row of parse_operations_from_table: the candidates it appends
br_table_row(row) ==
    IF RowIsEmpty(row) THEN <<>>
    ELSE br_table_match(RowText(row), Search(globals.BR_TICKER_PATTERN, RowText(row)))

\* the candidates of every row of every table, in order
EachRow(tables, per_row(_)) ==
    Flatten([t \in DOMAIN tables |->
        Flatten([r \in DOMAIN tables[t] |-> per_row(tables[t][r])])])

\* parse_operations_from_table(tables)
parse_operations_from_table(tables) == EachRow(tables, br_table_row)

\* the lookup keeping the last declared entry whose name occurs
name_lookup_last(lowered, k) ==
    IF \A j \in k..Len(globals.STOCK_NAME_TO_TICKER) : ~Contains(lowered, globals.STOCK_NAME_TO_TICKER[j].name)
    THEN None
    ELSE Some(globals.STOCK_NAME_TO_TICKER[
             CHOOSE j \in k..Len(globals.STOCK_NAME_TO_TICKER) :
                 /\ Contains(lowered, globals.STOCK_NAME_TO_TICKER[j].name)
                 /\ \A i \in (j + 1)..Len(globals.STOCK_NAME_TO_TICKER) :
                        ~Contains(lowered, globals.STOCK_NAME_TO_TICKER[i].name)].ticker)

RECURSIVE name_lookup(_, _)
\* the ticker of the first entry of STOCK_NAME_TO_TICKER, from entry k on,
\* whose name occurs in the lowercased text
name_lookup(lowered, k) ==
    IF k > Len(globals.STOCK_NAME_TO_TICKER) THEN None
    ELSE IF Contains(lowered, globals.STOCK_NAME_TO_TICKER[k].name)
         THEN Some(globals.STOCK_NAME_TO_TICKER[k].ticker)
         ELSE name_lookup(lowered, k + 1)

\* name_to_ticker(name)
name_to_ticker(name) == name_lookup(Lower(name), 1)

RICO_NUMBERS == << <<Plus(Digit \cup {"."}), One({","}), Cls(Digit, 2, 2)>>,
                   <<WB, Plus(Digit), WB>> >>
STANDALONE_V == << <<WB, One({"V"}), WB>> >>

\* l.274-278: float(clean) of one number token
rico_float(n) == ParseFloat(IF \E j \in DOMAIN n : n[j] = "," THEN BrClean(n) ELSE n)

\* the numbers kept as they are
rico_valid_all(parsed_numbers) == parsed_numbers

\* l.286: valid_numbers, the numbers other than 1
rico_valid(parsed_numbers) == Filter(parsed_numbers, Range(parsed_numbers) \ {1 * Scale})
\* l.268-286: valid_numbers from the number tokens
rico_numbers(found) == rico_valid(Positive(Present([i \in DOMAIN found |-> rico_float(found[i])])))

\* l.254-262: the ticker of the line
rico_ticker(line, m) ==
    IF Matched(m) THEN Some(Group0(line, m)) ELSE name_lookup(Lower(line), 1)

\* l.288-302: the first three valid numbers and their validation
rico_emit(ticker, op_type, valid_numbers) ==
    IF ticker = None \/ Len(valid_numbers) < 3 THEN <<>>
    ELSE IF Abs(valid_numbers[3] - Mul(valid_numbers[1], valid_numbers[2])) < 1 * Scale
         THEN << [ticker |-> ticker[1], type |-> op_type, quantity |-> valid_numbers[1],
                  price |-> valid_numbers[2], total |-> valid_numbers[3]] >>
         ELSE <<>>

\* one line of parse_rico_format: the candidates it appends
rico_line(line) ==
    IF ~Contains(Lower(line), <<"b","o","v","e","s","p","a">>) /\ ~Contains(Lower(line), <<"f","r","a","c","i","o","n","a","r","i","o">>) THEN <<>>
    ELSE rico_emit(rico_ticker(line, Search(globals.BR_TICKER_PATTERN, line)),
                   SellIf(Matched(Search(STANDALONE_V, line))),
                   rico_numbers(FindAll(RICO_NUMBERS, line)))

\* text.split('\n')
Lines(text) == SplitOn(text, NL)

\* the candidates of every line, in order
EachLine(lines, per_line(_)) == Flatten([i \in DOMAIN lines |-> per_line(lines[i])])

\* parse_rico_format(tables, text)
parse_rico_format(tables, text) == EachLine(Lines(text), rico_line)

TEXT_NUMBERS == << <<Plus(Digit \cup {"."}), One({","}), Cls(Digit, 2, 2)>>,
                   <<Plus(Digit)>> >>

\* l.329-336
is_operation_line(line_lower) ==
    \/ Contains(line_lower, <<SP,"c",SP>>) \/ Contains(line_lower, <<SP,"v",SP>>)
    \/ Contains(line_lower, <<"c","o","m","p","r","a">>) \/ Contains(line_lower, <<"v","e","n","d","a">>)
    \/ Contains(line_lower, <<"f","r","a","c","i","o","n","a","r","i","o">>) \/ Contains(line_lower, <<"l","o","t","e">>)

\* l.368-380: the first later number within 0.01..10000 that differs from the
\* quantity, total / quantity when there is none
br_text_price(in_band, quantity, total) ==
    IF in_band # None THEN in_band[1] ELSE Div(total, quantity)

\* l.362-390 over the positive numbers of the line
br_text_emit(ticker, op_type, parsed_numbers) ==
    IF Len(parsed_numbers) < 2 THEN <<>>
    ELSE << [ticker |-> ticker, type |-> op_type,
             quantity |-> parsed_numbers[1],
             price |-> br_text_price(
                 FirstIn(Tail(parsed_numbers),
                         {v \in Range(parsed_numbers) :
                             v >= 1 /\ v <= 10000 * Scale /\ v # parsed_numbers[1]}),
                 parsed_numbers[1], MaxSeq(parsed_numbers)),
             total |-> MaxSeq(parsed_numbers)] >>

\* l.321-359 for a line with the ticker match m
br_text_match(line, m) ==
    IF ~Matched(m) \/ ~is_operation_line(Lower(line)) THEN <<>>
    ELSE br_text_emit(Group0(line, m), SellIf(SellMarker(Lower(line))),
                      Positive(Present(BrFloats(FindAll(TEXT_NUMBERS, line)))))

\* one line of parse_operations_from_text: the candidates it appends
br_text_line(line) ==
    IF Len(line) < 10 THEN <<>> ELSE br_text_match(line, Search(globals.BR_TICKER_PATTERN, line))

\* parse_operations_from_text(text)
parse_operations_from_text(text) == EachLine(Lines(text), br_text_line)

FeeValue == <<LabelSep, Plus(Digit \cup {".", ","})>>

\* fee_patterns of extract_fees, in declaration order
fee_patterns == <<
    [fee_type |-> "brokerage",
     patterns |-> << << Lit(<<"c","o","r","r","e","t","a","g","e","m">>) \o FeeValue >>,
                     << Lit(<<"t","a","x","a",SP,"d","e",SP,"c","o","r","r","e","t","a","g","e","m">>) \o FeeValue >> >>],
    [fee_type |-> "settlement",
     patterns |-> << << Lit(<<"l","i","q","u","i","d","a",CCedil,ATilde,"o">>) \o FeeValue >>,
                     << Lit(<<"t","a","x","a",SP,"d","e",SP,"l","i","q","u","i","d","a",CCedil,ATilde,"o">>) \o FeeValue >> >>],
    [fee_type |-> "emoluments",
     patterns |-> << << Lit(<<"e","m","o","l","u","m","e","n","t","o","s">>) \o FeeValue >> >>],
    [fee_type |-> "iss",
     patterns |-> << << Lit(<<"i","s","s">>) \o FeeValue >> >>],
    [fee_type |-> "irrf",
     patterns |-> << << Lit(<<"i","r","r","f">>) \o FeeValue >>,
                     << Lit(<<"i",".","r",".","r",".","f",".">>) \o FeeValue >> >>] >>

\* l.410-417 for one variant: the value it sets, None when the variant does
\* not match or float raises ValueError
fee_value(lowered, e, m) ==
    IF Matched(m) THEN ParseFloat(BrClean(LastItems(lowered, m, e, 1))) ELSE None

RECURSIVE fee_of_last(_, _, _)
\* the inner loop without its break: the last variant that matches and parses
\* sets the field
fee_of_last(lowered, patterns, k) ==
    IF k > Len(patterns) THEN None
    ELSE OrElse(fee_of_last(lowered, patterns, k + 1),
                fee_value(lowered, patterns[k], Search(patterns[k], lowered)))

RECURSIVE fee_of(_, _, _)
\* the inner loop of extract_fees over the variants of one category, from
\* variant k on, over text.lower(): the value set by the first variant that
\* matches and whose group parses (break), None when the loop ends without
\* setting the field
fee_of(lowered, patterns, k) ==
    IF k > Len(patterns) THEN None
    ELSE OrElse(fee_value(lowered, patterns[k], Search(patterns[k], lowered)),
                fee_of(lowered, patterns, k + 1))

\* fees.total read from the brokerage field alone
TotalOfBrokerage(f) == [f EXCEPT !.total = f.brokerage]

\* fees.total = the sum of the seven named fields
WithTotal(f) ==
    [f EXCEPT !.total = f.brokerage + f.settlement + f.emoluments + f.custody
                        + f.iss + f.irrf + f.other]

\* the field of Fees() after the category's loop
FeeOrDefault(v) == IF v = None THEN 0 ELSE v[1]
FeeField(lowered, c) == FeeOrDefault(fee_of(lowered, fee_patterns[c].patterns, 1))

\* the five categories of fee_patterns set on Fees()
FeesOf(lowered) ==
    [Fees0 EXCEPT !.brokerage = FeeField(lowered, 1),
                  !.settlement = FeeField(lowered, 2),
                  !.emoluments = FeeField(lowered, 3),
                  !.iss = FeeField(lowered, 4),
                  !.irrf = FeeField(lowered, 5)]

\* extract_fees(text)
extract_fees(text) == WithTotal(FeesOf(Lower(text)))

----------------------------------------------------------------------------
(* parsers/avenue.py *)

US_ETFS == {<<"S","P","Y">>, <<"Q","Q","Q">>, <<"V","T","I">>, <<"V","O","O">>, <<"I","V","V">>, <<"V","E","A">>, <<"V","W","O">>, <<"A","R","K","K">>, <<"T","L","T">>, <<"G","L","D">>}

\* identify_asset_type(symbol, description) of avenue
av_identify_asset_type(symbol, description) ==
    IF symbol \in globals.US_ETFS \/ Contains(Lower(description), <<"e","t","f">>) THEN "etf_us"
    ELSE IF Contains(Lower(description), <<"r","e","i","t">>) THEN "reit_us"
    ELSE "stock_us"

\* \d{1,2}/\d{1,2}/\d{2,4} and \d{1,2}/\d{1,2}/\d{4}
DateMDY24 == <<Cls(Digit, 1, 2), One({"/"}), Cls(Digit, 1, 2), One({"/"}), Cls(Digit, 2, 4)>>
DateMDY4 == <<Cls(Digit, 1, 2), One({"/"}), Cls(Digit, 1, 2), One({"/"}), Cls(Digit, 4, 4)>>
\* ^\d+\.\d+$
DECIMAL == << <<Plus(Digit), One({"."}), Plus(Digit), EOL>> >>
\* ^[A-Z]{1,5}$
US_SYMBOL == << <<Cls(Upper, 1, 5), EOL>> >>
\* \d+\.?\d*
US_NUMBERS == << <<Plus(Digit), Opt({"."}), Star(Digit)>> >>

\* re.match(e, part) succeeds
Matches(e, part) == Matched(Match(e, part))

LastOf(s) == s[Len(s)]

\* l.80-83 and l.205-208: "%m/%d/%y" for a two-character year, "%m/%d/%Y" otherwise
strptime_by_year(part) ==
    IF Len(LastOf(SplitOn(part, "/"))) = 2 THEN strptime_mdy(part) ELSE strptime_mdY(part)

\* l.76-86: trade_date is read from the first part that is a date
av_trade_date(remaining, dates) ==
    IF dates = {} THEN None ELSE strptime_by_year(remaining[Least(dates)])

\* l.87-93: the parts from the first part that is no date and follows a date;
\* all of them when there is no such part
av_from(remaining, after) == IF after = {} THEN remaining ELSE From(remaining, Least(after))
av_data_parts(remaining, dates) ==
    av_from(remaining, {i \in DOMAIN remaining : i \notin dates /\ \E j \in dates : j < i})

NoCandidate == [quantity |-> None, symbol |-> None, price |-> None]

\* l.105-118 at the first part i that is a decimal number
av_first_at(data_parts, i, follows) ==
    [quantity |-> ParseFloat(data_parts[i]),
     symbol |-> IF follows THEN Some(data_parts[i + 1]) ELSE None,
     price |-> IF follows /\ i + 2 <= Len(data_parts) THEN ParseFloat(data_parts[i + 2]) ELSE None]

\* l.103-118: the first loop over data_parts
av_first(data_parts, decimals) ==
    IF decimals = {} THEN NoCandidate
    ELSE av_first_at(data_parts, Least(decimals),
                     /\ Least(decimals) + 1 <= Len(data_parts)
                     /\ Matches(US_SYMBOL, data_parts[Least(decimals) + 1]))

\* l.131-133 over sorted_nums
av_pick(symbol, sorted_nums) ==
    [quantity |-> Some(sorted_nums[1]),
     symbol |-> Some(symbol),
     price |-> Some(IF sorted_nums[2] > 1 * Scale THEN sorted_nums[2] ELSE LastOf(sorted_nums))]

\* l.124-134 for the first part that is a symbol
av_around(c, symbol, float_nums) ==
    IF Len(float_nums) >= 2 THEN av_pick(symbol, Sorted(float_nums))
    ELSE [c EXCEPT !.symbol = Some(symbol)]

\* [float(n) for n in numbers if float(n) > 0]
UsFloats(found) == Positive(Present([i \in DOMAIN found |-> ParseFloat(found[i])]))

\* l.121-134: the second loop, taken when the first found no symbol
av_second(data_parts, c, symbols) ==
    IF c.symbol # None \/ symbols = {} THEN c
    ELSE av_around(c, data_parts[Least(symbols)],
                   UsFloats(FindAll(US_NUMBERS, JoinWith(data_parts, <<SP>>))))

\* price if price else 0
Truthy(price) == IF price = None THEN 0 ELSE price[1]

\* l.136-146
av_emit(op_type, trade_date, c) ==
    IF c.symbol # None /\ c.quantity # None /\ Truthy(c.quantity) > 0
    THEN << [symbol |-> c.symbol[1], type |-> op_type, quantity |-> c.quantity[1],
             price |-> Truthy(c.price), total |-> Mul(c.quantity[1], Truthy(c.price)),
             trade_date |-> trade_date] >>
    ELSE <<>>

\* l.93-134 over data_parts
av_data(op_type, trade_date, data_parts) ==
    IF Len(data_parts) < 3 THEN <<>>
    ELSE av_emit(op_type, trade_date,
             av_second(data_parts,
                 av_first(data_parts, {i \in DOMAIN data_parts : Matches(DECIMAL, data_parts[i])}),
                 {i \in DOMAIN data_parts :
                     /\ Matches(US_SYMBOL, data_parts[i])
                     /\ data_parts[i] \notin {<<"B">>, <<"S">>, <<"U","S","D">>}}))

\* l.66-93 over remaining = the parts after B/S and the positions of its dates
av_remaining(op_type, remaining, dates) ==
    IF Len(remaining) < 5 THEN <<>>
    ELSE av_data(op_type, av_trade_date(remaining, dates), av_data_parts(remaining, dates))

\* l.63-66 at the first part that is B or S
av_action(parts, action_idx) ==
    av_remaining(IF parts[action_idx] = <<"B">> THEN "buy" ELSE "sell",
                 From(parts, action_idx + 1),
                 {i \in DOMAIN From(parts, action_idx + 1) :
                     Matches(<<DateMDY24>>, From(parts, action_idx + 1)[i])})

\* l.49-61 over parts = line.split()
av_parts(parts, actions) ==
    IF Len(parts) < 7 \/ actions = {} THEN <<>> ELSE av_action(parts, Least(actions))

\* one line of parse_avenue_text: the candidates it appends
av_line(line) ==
    av_parts(SplitWS(Strip(line)),
             {i \in DOMAIN SplitWS(Strip(line)) : SplitWS(Strip(line))[i] \in {<<"B">>, <<"S">>}})

\* parse_avenue_text(text)
parse_avenue_text(text) == EachLine(Lines(text), av_line)

CurrentTradeDate == << Lit(<<"c","u","r","r","e","n","t",SP,"t","r","a","d","e",SP,"d","a","t","e">>) \o <<LabelSep>> \o DateMDY24 >>
ProcessDate == << Lit(<<"p","r","o","c","e","s","s","d","a","t","e">>) \o <<LabelSep>> \o DateMDY4 >>

\* l.201-210: the date after "current trade date", None without a match or
\* when strptime raises ValueError
av_current_date(lowered, m) ==
    IF Matched(m) THEN strptime_by_year(LastItems(lowered, m, CurrentTradeDate, 5)) ELSE None
\* l.213-219
av_process_date(lowered, m) ==
    IF Matched(m) THEN strptime_mdY(LastItems(lowered, m, ProcessDate, 5)) ELSE None

\* l.199-219 over full_text.lower()
av_note_date(lowered) ==
    OrElse(av_current_date(lowered, Search(CurrentTradeDate, lowered)),
           av_process_date(lowered, Search(ProcessDate, lowered)))

\* l.190-195
av_broker(lowered) ==
    IF Contains(lowered, <<"a","v","e","n","u","e">>) \/ Contains(lowered, <<"a","p","e","x",SP,"c","l","e","a","r","i","n","g">>)
    THEN Some("Avenue") ELSE None

----------------------------------------------------------------------------
(* parsers/inter_global.py *)

IG_ETFS == {<<"T","L","T">>, <<"S","P","Y">>, <<"Q","Q","Q">>, <<"I","V","V">>, <<"V","T","I">>, <<"V","O","O">>}

\* identify_asset_type(symbol, security_name) of inter_global
ig_identify_asset_type(symbol, security_name) ==
    IF Contains(Lower(security_name), <<"e","t","f">>) \/ symbol \in IG_ETFS THEN "etf_us"
    ELSE IF Contains(Lower(security_name), <<"r","e","i","t">>) THEN "reit_us"
    ELSE "stock_us"

\* ^\d+\.?\d*$
IG_NUMBER == << <<Plus(Digit), Opt({"."}), Star(Digit), EOL>> >>
\* ^([A-Z]{2,5})\b
IG_SYMBOL == << <<Cls(Upper, 2, 5), WB>> >>

\* 'buy' in lowered or 'sell' in lowered
HasAction(lowered) == Contains(lowered, <<"b","u","y">>) \/ Contains(lowered, <<"s","e","l","l">>)

\* datetime.strptime(dates[0], "%m/%d/%Y") if dates, None on ValueError
ig_trade_date(dates) == IF dates = <<>> THEN None ELSE strptime_mdY(dates[1])

\* the first two numbers read as price and quantity
ig_emit_swapped(symbol, security, op_type, numbers, dates, accept) ==
    IF Len(numbers) >= 2 /\ accept
    THEN << [symbol |-> symbol, security |-> security, type |-> op_type,
             quantity |-> numbers[2], price |-> numbers[1],
             total |-> Mul(numbers[1], numbers[2]),
             trade_date |-> ig_trade_date(dates)] >>
    ELSE <<>>

\* l.91-113 and l.156-177: the first two numbers are quantity and price
ig_emit(symbol, security, op_type, numbers, dates, accept) ==
    IF Len(numbers) >= 2 /\ accept
    THEN << [symbol |-> symbol, security |-> security, type |-> op_type,
             quantity |-> numbers[1], price |-> numbers[2],
             total |-> Mul(numbers[1], numbers[2]),
             trade_date |-> ig_trade_date(dates)] >>
    ELSE <<>>

\* l.83-89: the parts after the action that are numbers and not dates
ig_numbers(rest) ==
    Present([i \in DOMAIN rest |->
        IF ~Matches(<<DateMDY4>>, rest[i]) /\ Matches(IG_NUMBER, rest[i])
        THEN ParseFloat(rest[i]) ELSE None])

\* l.85-86: the parts after the action that are dates
ig_dates(rest) == Filter(rest, {d \in Range(rest) : Matches(<<DateMDY4>>, d)})

\* l.104: if symbol and quantity > 0, read after len(numbers) >= 2
ig_accept(symbol, numbers) == symbol # <<>> /\ Len(numbers) >= 2 /\ numbers[1] > 0

\* l.69-113 at the first part that is buy or sell
ig_action(parts, action_idx, numbers) ==
    ig_emit(parts[1],
            IF action_idx > 2 THEN JoinWith(SubSeq(parts, 2, action_idx - 1), <<SP>>) ELSE <<>>,
            IF Lower(parts[action_idx]) = <<"b","u","y">> THEN "buy" ELSE "sell",
            numbers, ig_dates(From(parts, action_idx + 1)), ig_accept(parts[1], numbers))

\* l.58-67 over parts = line.split()
ig_parts(parts, actions) ==
    IF actions = {} THEN <<>>
    ELSE ig_action(parts, Least(actions), ig_numbers(From(parts, Least(actions) + 1)))

\* one line of parse_inter_global_text: the candidates it appends
ig_line(line) ==
    IF ~HasAction(Lower(Strip(line))) THEN <<>>
    ELSE ig_parts(SplitWS(Strip(line)),
                  {i \in DOMAIN SplitWS(Strip(line)) :
                      Lower(SplitWS(Strip(line))[i]) \in {<<"b","u","y">>, <<"s","e","l","l">>}})

\* parse_inter_global_text(text)
parse_inter_global_text(text) == EachLine(Lines(text), ig_line)

\* l.143-177 for a row with a symbol match m
ig_row_match(row_text, m) ==
    IF ~Matched(m) THEN <<>>
    ELSE ig_emit(Group0(row_text, m), <<>>,
                 IF Contains(Lower(row_text), <<"b","u","y">>) THEN "buy" ELSE "sell",
                 UsFloats(FindAll(US_NUMBERS, row_text)),
                 FindAll(<<DateMDY4>>, row_text), TRUE)

\* one row of parse_inter_global_tables: the candidates it appends
ig_row(row) ==
    IF RowIsEmpty(row) \/ ~HasAction(Lower(RowText(row))) THEN <<>>
    ELSE ig_row_match(RowText(row), Match(IG_SYMBOL, RowText(row)))

\* parse_inter_global_tables(tables, text)
parse_inter_global_tables(tables, text) == EachRow(tables, ig_row)

ConfirmationDate ==
    << Lit(<<"c","o","n","f","i","r","m","a","t","i","o","n",SP,"d","a","t","e">>) \o <<Star(Space), One({":"}), Star(Space)>> \o DateMDY4 >>

\* l.233-238
ig_date_of(lowered, m) ==
    IF Matched(m) THEN strptime_mdY(LastItems(lowered, m, ConfirmationDate, 5)) ELSE None
ig_note_date(lowered) == ig_date_of(lowered, Search(ConfirmationDate, lowered))

\* l.221-227
ig_broker(lowered) ==
    IF \/ Contains(lowered, <<"i","n","t","e","r",SP,"c","o",SP,"s","e","c","u","r","i","t","i","e","s">>) \/ Contains(lowered, <<"i","n","t","e","r",".","c","o">>)
       \/ Contains(lowered, <<"t","r","a","n","s","a","c","t","i","o","n",SP,"c","o","n","f","i","r","m","a","t","i","o","n">>)
    THEN Some("Inter Global") ELSE None

----------------------------------------------------------------------------
(* parsers/generic.py *)

\* TICKER_PATTERNS, in order: Brazilian, then US
TICKER_PATTERNS == <<
    << <<WB, Cls(Upper, 4, 6), Cls(Digit, 1, 2), Opt({"F"}), WB>> >>,
    << <<WB, Cls(Upper, 1, 5), WB>> >> >>

TICKER_BLACKLIST == {
    <<"U","S","D">>, <<"B","R","L">>, <<"E","U","R">>, <<"G","B","P">>, <<"C","A","D">>, <<"A","U","D">>, <<"J","P","Y">>,
    <<"B","U","Y">>, <<"S","E","L","L">>, <<"D","A","T","E">>, <<"T","I","M","E">>, <<"T","O","T","A","L">>, <<"Q","T","D">>, <<"Q","T","D","E">>,
    <<"N","O","T","A">>, <<"C","O","R","R">>, <<"T","A","X","A">>, <<"V","A","L","O","R">>, <<"P","R","E","C","O">>, <<"T","I","P","O">>,
    <<"S","T","O","C","K">>, <<"B","O","N","D">>, <<"E","T","F">>, <<"R","E","I","T">>, <<"P","R","I","C","E">>, <<"A","M","O","U","N","T">>,
    <<"T","H","E">>, <<"A","N","D">>, <<"F","O","R">>, <<"N","O","T">>, <<"A","R","E">>, <<"B","U","T">>, <<"W","A","S">>}

\* l.56-61 for one pattern: its first match, unless blacklisted
gen_potential(row_text, m) ==
    IF Matched(m) /\ Group0(row_text, m) \notin globals.TICKER_BLACKLIST
    THEN Some(Group0(row_text, m)) ELSE None

RECURSIVE gen_ticker_from(_, _)
\* l.54-61: the loop over TICKER_PATTERNS from pattern k on
gen_ticker_from(row_text, k) ==
    IF k > Len(globals.TICKER_PATTERNS) THEN None
    ELSE OrElse(gen_potential(row_text, Search(globals.TICKER_PATTERNS[k], row_text)),
                gen_ticker_from(row_text, k + 1))

\* -?[\d.,]+
GEN_NUMBERS == << <<Opt({"-"}), Plus(Digit \cup {".", ","})>> >>

\* n.rfind(c), counted from 1, 0 when c does not occur
RFind(n, c) == IF \A i \in DOMAIN n : n[i] # c THEN 0 ELSE Greatest({i \in DOMAIN n : n[i] = c})

\* l.73-83: the rightmost separator decides the convention
gen_float(n) ==
    ParseFloat(IF RFind(n, ",") > RFind(n, ".") THEN BrClean(n) ELSE Replace(n, ",", <<>>))

\* l.67-85: the tokens that parse; a token that raises ValueError is skipped
gen_numbers(found) == Present([i \in DOMAIN found |-> gen_float(found[i])])

\* l.94: 'venda' in row_lower or ' v ' in row_lower or 'sell' in row_lower
gen_sell(row_lower) ==
    Contains(row_lower, <<"v","e","n","d","a">>) \/ Contains(row_lower, <<SP,"v",SP>>) \/ Contains(row_lower, <<"s","e","l","l">>)

\* l.111-117
gen_asset_type(ticker) ==
    IF Matches(<< <<Cls(Upper, 4, 4), One({"1"}), One({"1"}), EOL>> >>, ticker) THEN "reit_br"
    ELSE IF Matches(<< <<Cls(Upper, 4, 6), Cls(Digit, 1, 2)>> >>, ticker) THEN "stock_br"
    ELSE IF Len(ticker) <= 5 THEN "stock_us"
    ELSE "other"

\* l.106-108: the stated total is kept within 10% of quantity * price
gen_total(total, product) ==
    IF total > 0 /\ 10 * Abs(total - product) > total THEN product ELSE total

\* l.119-127: Operation(...) with the absolute values
gen_operation(ticker, op_type, quantity, price, total) ==
    [ticker |-> ticker, name |-> None, type |-> op_type,
     asset_type |-> gen_asset_type(ticker),
     quantity |-> Abs(quantity), price |-> Abs(price), total |-> Abs(total),
     currency |-> "BRL", trade_date |-> None]

\* l.101-108
gen_roles(ticker, op_type, quantity, price, stated) ==
    gen_operation(ticker, op_type, quantity, price,
                  gen_total(IF stated = None THEN Mul(quantity, price) ELSE stated[1],
                            Mul(quantity, price)))

\* l.87-127 over the ticker and parsed_numbers
gen_emit(ticker, op_type, parsed_numbers) ==
    IF ticker = None \/ Len(parsed_numbers) < 2 THEN <<>>
    ELSE << gen_roles(ticker[1], op_type,
                      IF parsed_numbers[1] < 10000 * Scale THEN parsed_numbers[1] ELSE 1 * Scale,
                      parsed_numbers[2],
                      IF Len(parsed_numbers) > 2 THEN Some(LastOf(parsed_numbers)) ELSE None) >>

\* l.51-127 over row_text
gen_row_text(row_text) ==
    gen_emit(gen_ticker_from(row_text, 1), SellIf(gen_sell(Lower(row_text))),
             gen_numbers(FindAll(GEN_NUMBERS, row_text)))

\* one row of extract_operations_from_tables: the Operation it builds, before
\* the model validates it
gen_row(row) == IF RowIsEmpty(row) THEN <<>> ELSE gen_row_text(RowText(row))

RECURSIVE LongTables(_)
\* l.40-45: tables of fewer than two rows are skipped
LongTables(tables) ==
    IF tables = <<>> THEN <<>>
    ELSE (IF Len(tables[1]) < 2 THEN <<>> ELSE <<tables[1]>>) \o LongTables(Tail(tables))

\* extract_operations_from_tables(tables), before validation
extract_operations_from_tables(tables) == EachRow(LongTables(tables), gen_row)

Dollar == "$"

\* l.157-160
gen_currency(text) ==
    IF (Contains(Lower(text), <<"u","s","d">>) \/ Contains(text, <<Dollar>>))
       /\ ~Contains(Lower(text), <<"r", Dollar>>)
    THEN "USD" ELSE "BRL"

\* l.174-177
GEN_DATE_PATTERNS == <<
    << <<Cls(Digit, 2, 2), One({"/"}), Cls(Digit, 2, 2), One({"/"}), Cls(Digit, 4, 4)>> >>,
    << <<Cls(Digit, 4, 4), One({"-"}), Cls(Digit, 2, 2), One({"-"}), Cls(Digit, 2, 2)>> >> >>

\* l.181-186: the formats tried on the matched text
gen_strptime(s) == OrElse(strptime_dmY(s), strptime_Ymd(s))
gen_date_of(text, m) == IF Matched(m) THEN gen_strptime(Group0(text, m)) ELSE None

RECURSIVE gen_date_from(_, _)
\* l.178-188: the loop over date_patterns from pattern k on
gen_date_from(text, k) ==
    IF k > Len(GEN_DATE_PATTERNS) THEN None
    ELSE OrElse(gen_date_of(text, Search(GEN_DATE_PATTERNS[k], text)), gen_date_from(text, k + 1))

----------------------------------------------------------------------------
(* parsers/ibkr.py *)

\* identify_asset_type_from_category(category, ticker); category None or ""
\* reads as ""
identify_asset_type_from_category(category, ticker) ==
    IF Contains(Lower(category), <<"e","t","f">>) THEN "etf_us"
    ELSE IF Contains(Lower(category), <<"r","e","i","t">>) THEN "reit_us"
    ELSE IF Contains(Lower(category), <<"o","p","t","i","o","n">>) \/ Len(ticker) > 10 THEN "option"
    ELSE IF Contains(Lower(category), <<"f","u","t","u","r","e">>) THEN "future"
    ELSE IF Contains(Lower(category), <<"b","o","n","d">>) \/ Contains(Lower(category), <<"t","r","e","a","s","u","r","y">>) THEN "bond"
    ELSE "stock_us"

\* row.get(key, default): a cell is Some(text), or None where the row is
\* shorter than the header
Get(row, key, default) == IF key \in DOMAIN row THEN row[key] ELSE default

\* str(e) of the AttributeError raised by None.replace, None.strip, None.split
AttributeError == <<"'","N","o","n","e","T","y","p","e","'",SP,"o","b","j","e","c","t",SP,"h","a","s",SP,"n","o",SP,"a","t","t","r","i","b","u","t","e">>

\* float(cell.replace(',', '')): the error it raises, or the value
csv_float(cell) ==
    IF cell = None THEN [e |-> "attribute", v |-> 0]
    ELSE IF ParseFloat(Replace(cell[1], ",", <<>>)) = None THEN [e |-> "value", v |-> 0]
    ELSE [e |-> "ok", v |-> ParseFloat(Replace(cell[1], ",", <<>>))[1]]

\* %Y-%m-%d %H:%M:%S
YmdHMS == << <<Cls(Digit, 4, 4), One({"-"}), Cls(Digit, 1, 2), One({"-"}), Cls(Digit, 1, 2),
               Plus(Space), Cls(Digit, 1, 2), One({":"}), Cls(Digit, 1, 2), One({":"}),
               Cls(Digit, 1, 2), EOL>> >>
\* %Y%m%d
YmdCompact == << <<Cls(Digit, 4, 4), Cls(Digit, 1, 2), Cls(Digit, 1, 2), EOL>> >>

\* the three numbers in range for hours, minutes and seconds
TimeOk(h, mi, sec) == h <= 23 /\ mi <= 59 /\ sec <= 61

strptime_YmdHMS_of(s, m) ==
    IF Matched(m) /\ TimeOk(DigitsToInt(GroupItems(s, m, 7, 7)), DigitsToInt(GroupItems(s, m, 9, 9)),
                            DigitsToInt(GroupItems(s, m, 11, 11)))
    THEN MkDate(DigitsToInt(GroupItems(s, m, 1, 1)), DigitsToInt(GroupItems(s, m, 3, 3)),
                DigitsToInt(GroupItems(s, m, 5, 5)))
    ELSE None
strptime_YmdHMS(s) == strptime_YmdHMS_of(s, Match(YmdHMS, s))

strptime_compact_of(s, m) ==
    IF Matched(m)
    THEN MkDate(DigitsToInt(GroupItems(s, m, 1, 1)), DigitsToInt(GroupItems(s, m, 2, 2)),
                DigitsToInt(GroupItems(s, m, 3, 3)))
    ELSE None
strptime_compact(s) == strptime_compact_of(s, Match(YmdCompact, s))

\* l.80-85: the formats tried on date_str.split(',')[0].strip(); the first
\* format, which holds a comma, matches no such string
csv_strptime(s) == OrElse(strptime_YmdHMS(s), OrElse(strptime_compact(s), strptime_mdY(s)))
csv_trade_date(date_str) == csv_strptime(Strip(SplitOn(date_str, ",")[1]))

\* category.lower() if category else ""
OrEmpty(cell) == IF cell = None THEN <<>> ELSE cell[1]

\* Operation(...) of one row with the total left signed
csv_operation_signed(ticker, quantity, price, total, date_str, category) ==
    [ticker |-> ticker, name |-> None, type |-> IF quantity > 0 THEN "buy" ELSE "sell",
     asset_type |-> identify_asset_type_from_category(OrEmpty(category), ticker),
     quantity |-> Abs(quantity), price |-> price, total |-> total,
     currency |-> "USD", trade_date |-> FormatOpt(csv_trade_date(date_str))]

\* l.90-99: Operation(...) of one row
csv_operation(ticker, quantity, price, total, date_str, category) ==
    [ticker |-> ticker, name |-> None, type |-> IF quantity > 0 THEN "buy" ELSE "sell",
     asset_type |-> identify_asset_type_from_category(OrEmpty(category), ticker),
     quantity |-> Abs(quantity), price |-> price, total |-> Abs(total),
     currency |-> "USD", trade_date |-> FormatOpt(csv_trade_date(date_str))]

\* the outcome of one row: what it adds to operations, warnings and
\* total_fees, and the exception that leaves the loop, if any
CsvOutcome(ops, warned, fee, fatal) == [ops |-> ops, warned |-> warned, fee |-> fee, fatal |-> fatal]
CsvSkip == CsvOutcome(<<>>, <<>>, 0, None)
CsvFatal(fee) == CsvOutcome(<<>>, <<>>, fee, Some(AttributeError))
CsvRowError(fee, desc) == CsvOutcome(<<>>, <<WFault("Error parsing row: ", desc)>>, fee, None)

\* l.90-103: the row's Operation, or the ValidationError caught for the row
csv_validate(op, fee) ==
    IF OperationValid(op) THEN CsvOutcome(<<op>>, <<>>, fee, None)
    ELSE CsvRowError(fee, ValidationError)

\* l.77-99 after the four numbers parsed
csv_dated(ticker, q, p, t, f, date_cell, category) ==
    IF date_cell = None THEN CsvFatal(Abs(f))
    ELSE csv_validate(csv_operation(ticker, q, p, t, date_cell[1], category), Abs(f))

\* l.57-75: the four numbers in the order the code parses them; fs holds the
\* outcomes of csv_float for Quantity, price, proceeds and fee
csv_numbers(row, ticker, fs, failed) ==
    IF failed # {} THEN
        (IF fs[Least(failed)].e = "attribute" THEN CsvFatal(0)
         ELSE CsvRowError(0, FloatError))
    ELSE csv_dated(ticker, fs[1].v, fs[2].v, fs[3].v, fs[4].v,
                   Get(row, "Date/Time", Get(row, "TradeDate", Some(<<>>))),
                   Get(row, "Asset Category", Get(row, "AssetClass", Some(<<>>))))

csv_floats(row) ==
    << csv_float(Get(row, "Quantity", Some(<<"0">>))),
       csv_float(Get(row, "T. Price", Get(row, "Price", Some(<<"0">>)))),
       csv_float(Get(row, "Proceeds", Get(row, "Amount", Some(<<"0">>)))),
       csv_float(Get(row, "Comm/Fee", Get(row, "Commission", Some(<<"0">>)))) >>

csv_parsed(row, ticker, fs) ==
    csv_numbers(row, ticker, fs, {i \in DOMAIN fs : fs[i].e # "ok"})

\* l.53-55 over the Symbol cell
csv_symbol(row, cell) ==
    IF cell = None THEN CsvFatal(0)
    ELSE IF Strip(cell[1]) = <<>> THEN CsvSkip
    ELSE csv_parsed(row, Strip(cell[1]), csv_floats(row))

\* one row of the loop of parse_csv
csv_row(row) == csv_symbol(row, Get(row, "Symbol", Some(<<>>)))

\* the state of the loop of parse_csv
CsvAdd(acc, o) ==
    [operations |-> acc.operations \o o.ops, warnings |-> acc.warnings \o o.warned,
     total_fees |-> acc.total_fees + o.fee, fatal |-> o.fatal]

RECURSIVE csv_rows(_, _, _)
\* l.50-103: the loop over the rows from row k on; it ends at the first row
\* that raises an exception the row handler does not catch
csv_rows(rows, k, acc) ==
    IF k > Len(rows) \/ acc.fatal # None THEN acc
    ELSE csv_rows(rows, k + 1, CsvAdd(acc, csv_row(rows[k])))

\* \b([A-Z]{1,5})\b
IB_TICKER == << <<WB, Cls(Upper, 1, 5), WB>> >>
IB_FALSE_POSITIVES == {<<"U","S","D">>, <<"E","U","R">>, <<"G","B","P">>, <<"C","A","D">>, <<"B","U","Y">>, <<"S","E","L","L">>, <<"D","A","T","E">>, <<"T","O","T","A","L">>}
\* -?[\d,]+\.?\d*
IB_NUMBERS == << <<Opt({"-"}), Plus(Digit \cup {","}), Opt({"."}), Star(Digit)>> >>

\* l.184: float(n.replace(',', '')) of every token
ib_floats(found) == [i \in DOMAIN found |-> ParseFloat(Replace(found[i], ",", <<>>))]

\* l.188-203: Operation(...) of one row
ib_operation(ticker, numbers) ==
    [ticker |-> ticker, name |-> None, type |-> IF numbers[1] < 0 THEN "sell" ELSE "buy",
     asset_type |-> "stock_us",
     quantity |-> Abs(numbers[1]), price |-> Abs(numbers[2]),
     total |-> IF Len(numbers) > 2 THEN Abs(numbers[3]) ELSE Mul(Abs(numbers[1]), Abs(numbers[2])),
     currency |-> "USD", trade_date |-> None]

\* the outcome of one row: the latch after it, the operation it appends, the
\* exception it raises
IbOutcome(latch, ops, fatal) == [in_trades_section |-> latch, ops |-> ops, fatal |-> fatal]

ib_validate(op) ==
    IF OperationValid(op) THEN IbOutcome(TRUE, <<op>>, None)
    ELSE IbOutcome(TRUE, <<>>, Some(ValidationError))

\* l.183-203 over the parsed tokens
ib_numbers(ticker, numbers) ==
    IF \E i \in DOMAIN numbers : numbers[i] = None THEN IbOutcome(TRUE, <<>>, Some(FloatError))
    ELSE IF Len(numbers) >= 2 THEN ib_validate(ib_operation(ticker, Present(numbers)))
    ELSE IbOutcome(TRUE, <<>>, None)

\* l.172-184 for a row of the trades section with ticker match m
ib_ticker(row_text, m) ==
    IF ~Matched(m) \/ Group0(row_text, m) \in IB_FALSE_POSITIVES THEN IbOutcome(TRUE, <<>>, None)
    ELSE ib_numbers(Group0(row_text, m), ib_floats(FindAll(IB_NUMBERS, row_text)))

\* the row with a latch that a trade row clears again
ib_row_text_unlatched(row_text, latch) ==
    IF Contains(Lower(row_text), <<"t","r","a","d","e","s">>) /\ ~Contains(Lower(row_text), <<"s","u","m","m","a","r","y">>)
    THEN IbOutcome(TRUE, <<>>, None)
    ELSE IF ~latch THEN IbOutcome(FALSE, <<>>, None)
    ELSE [ib_ticker(row_text, Search(IB_TICKER, row_text)) EXCEPT !.in_trades_section = FALSE]

\* l.158-166 over row_text
ib_row_text(row_text, latch) ==
    IF Contains(Lower(row_text), <<"t","r","a","d","e","s">>) /\ ~Contains(Lower(row_text), <<"s","u","m","m","a","r","y">>)
    THEN IbOutcome(TRUE, <<>>, None)
    ELSE IF ~latch THEN IbOutcome(FALSE, <<>>, None)
    ELSE ib_ticker(row_text, Search(IB_TICKER, row_text))

\* one row of the loop of parse_pdf, entered with the latch in_trades_section
ib_row(row, latch) ==
    IF RowIsEmpty(row) THEN IbOutcome(latch, <<>>, None) ELSE ib_row_text(RowText(row), latch)

IbAdd(acc, o) ==
    [in_trades_section |-> o.in_trades_section, operations |-> acc.operations \o o.ops,
     fatal |-> o.fatal]

RECURSIVE ib_rows(_, _, _)
\* l.150-203: the loop over the rows of all tables from row k on
ib_rows(rows, k, acc) ==
    IF k > Len(rows) \/ acc.fatal # None THEN acc
    ELSE ib_rows(rows, k + 1, IbAdd(acc, ib_row(rows[k], acc.in_trades_section)))

\* total\s+commission[:\s]*([\d.,]+)
IB_FEE == << Lit(<<"t","o","t","a","l">>) \o <<Plus(Space)>> \o Lit(<<"c","o","m","m","i","s","s","i","o","n">>)
             \o <<LabelSep, Plus(Digit \cup {".", ","})>> >>

\* l.209-213: Some(Fees), None when float raises ValueError
ib_fee_value(v) ==
    IF v = None THEN None
    ELSE Some([Fees0 EXCEPT !.brokerage = v[1], !.total = v[1]])
ib_fees_of(lowered, m) ==
    IF ~Matched(m) THEN Some(Fees0)
    ELSE ib_fee_value(ParseFloat(Replace(LastItems(lowered, m, IB_FEE, 1), ",", <<>>)))
ib_fees(text) == ib_fees_of(Lower(text), Search(IB_FEE, Lower(text)))

----------------------------------------------------------------------------
(* The request: what the decoder (pdfplumber) yields for the uploaded bytes *)

\* the password test without its second disjunct
PasswordOnly(desc) == Contains(Lower(desc), <<"p","a","s","s","w","o","r","d">>)

\* "password" in str(e).lower() or "encrypted" in str(e).lower()
PasswordSignal(desc) ==
    Contains(Lower(desc), <<"p","a","s","s","w","o","r","d">>) \/ Contains(Lower(desc), <<"e","n","c","r","y","p","t","e","d">>)

\* full_text and all_tables after the loop over pdf.pages
PagesText(pages) == Flatten([i \in DOMAIN pages |-> pages[i].text \o <<NL>>])
PagesTables(pages) == Flatten([i \in DOMAIN pages |-> pages[i].tables])

\* the variables no step of a parse assigns: the request, the HTTP response,
\* the module-level tables and the log of the process
Request == <<adapter, doc, upload, status, globals, served>>

\* pdfplumber.open(..., password=password) inside try, and the except clause
\* that tells the password fault from every other fault
OpenWithPassword(password_warning) ==
    /\ calls' = Append(calls, "open")
    /\ IF doc.open.kind = "open_error"
       THEN IF PasswordSignal(doc.open.desc)
            THEN /\ result' = Some([Response0 EXCEPT !.success = FALSE,
                                                     !.warnings = <<password_warning>>])
                 /\ pc' = "done" /\ exc' = exc
            ELSE /\ exc' = Some(doc.open.desc)
                 /\ pc' = "except" /\ result' = result
       ELSE /\ pc' = "pages" /\ exc' = exc /\ result' = result
    /\ UNCHANGED <<Request, full_text, all_tables, broker, note_date, note_number,
                   raw_operations, operations, fees, warnings>>

\* warnings = [...] before try, then pdfplumber.open(io.BytesIO(pdf_bytes))
\* without a handler of its own
OpenPlain(initial_warnings) ==
    /\ calls' = Append(calls, "open")
    /\ warnings' = initial_warnings
    /\ IF doc.open.kind = "open_error"
       THEN exc' = Some(doc.open.desc) /\ pc' = "except"
       ELSE exc' = exc /\ pc' = "pages"
    /\ UNCHANGED <<Request, full_text, all_tables, broker, note_date, note_number,
                   raw_operations, operations, fees, result>>

\* with pdf: for page in pdf.pages: extract_text, extract_tables
ReadPages(next_pc) ==
    /\ calls' = Append(calls, "pages")
    /\ IF doc.open.kind = "page_error"
       THEN /\ exc' = Some(doc.open.desc) /\ pc' = "except"
            /\ UNCHANGED <<full_text, all_tables>>
       ELSE /\ full_text' = PagesText(doc.pages)
            /\ all_tables' = PagesTables(doc.pages)
            /\ exc' = exc /\ pc' = next_pc
    /\ UNCHANGED <<Request, broker, note_date, note_number,
                   raw_operations, operations, fees, warnings, result>>

\* the loop that builds Operation(...) from the candidates: the first
\* candidate that fails validation raises
Convert(ops, next_pc) ==
    /\ calls' = Append(calls, "convert")
    /\ IF \A i \in DOMAIN ops : OperationValid(ops[i])
       THEN /\ operations' = ops /\ pc' = next_pc /\ exc' = exc
       ELSE /\ exc' = Some(ValidationError) /\ pc' = "except"
            /\ operations' = operations
    /\ UNCHANGED <<Request, full_text, all_tables, broker, note_date, note_number,
                   raw_operations, fees, warnings, result>>

\* return ParseResponse(...)
Return(response) ==
    /\ result' = Some(response)
    /\ pc' = "done"
    /\ UNCHANGED <<Request, full_text, all_tables, broker, note_date, note_number,
                   raw_operations, operations, fees, warnings, calls, exc>>

\* warnings.append(w) if cond
WarnIf(cond, w) == IF cond THEN Append(warnings, W(w)) ELSE warnings

\* except Exception as e: return ParseResponse(success=False, warnings=[...])
Fault(prefix) ==
    /\ result' = Some(FaultResponse(prefix, exc[1]))
    /\ pc' = "done"
    /\ UNCHANGED <<Request, full_text, all_tables, broker, note_date, note_number,
                   raw_operations, operations, fees, warnings, calls, exc>>

----------------------------------------------------------------------------
(* br_nota.parse *)

BrPasswordWarning == W("PDF is password-protected. Please provide your CPF (without dots/dashes) as the password.")

\* l.443-464: open the document; a password fault returns at once
BrOpen == adapter = "br_nota" /\ pc = "open" /\ OpenWithPassword(BrPasswordWarning)

\* l.455-464
BrPages == adapter = "br_nota" /\ pc = "pages" /\ ReadPages("identify")

\* l.466-469: broker = identify_broker(full_text)
BrIdentify ==
    /\ adapter = "br_nota" /\ pc = "identify"
    /\ calls' = Append(calls, "identify_broker")
    /\ broker' = identify_broker(full_text)
    /\ warnings' = WarnIf(broker' = None, "Could not identify broker")
    /\ pc' = "date"
    /\ UNCHANGED <<Request, full_text, all_tables, note_date, note_number,
                   raw_operations, operations, fees, exc, result>>

\* l.471-477: note_date = extract_date(full_text); note_number = extract_note_number(full_text)
BrDate ==
    /\ adapter = "br_nota" /\ pc = "date"
    /\ calls' = calls \o <<"extract_date", "extract_note_number">>
    /\ note_date' = extract_date(full_text)
    /\ warnings' = WarnIf(note_date' = None, "Could not extract note date")
    /\ note_number' = extract_note_number(full_text)
    /\ pc' = "rico"
    /\ UNCHANGED <<Request, full_text, all_tables, broker,
                   raw_operations, operations, fees, exc, result>>

\* l.479-484: if broker == "Rico" or "bovespa" in full_text.lower(): parse_rico_format
BrRico ==
    /\ adapter = "br_nota" /\ pc = "rico"
    /\ IF broker = Some("Rico") \/ Contains(Lower(full_text), <<"b","o","v","e","s","p","a">>)
       THEN /\ raw_operations' = parse_rico_format(all_tables, full_text)
            /\ calls' = Append(calls, "parse_rico_format")
       ELSE UNCHANGED <<raw_operations, calls>>
    /\ pc' = "table"
    /\ UNCHANGED <<Request, full_text, all_tables, broker, note_date, note_number,
                   operations, fees, warnings, exc, result>>

\* the table strategy run without the test of raw_operations, its candidates
\* added to those already found
BrTableMerging ==
    /\ adapter = "br_nota" /\ pc = "table"
    /\ raw_operations' = raw_operations \o parse_operations_from_table(all_tables)
    /\ calls' = Append(calls, "parse_operations_from_table")
    /\ pc' = "text"
    /\ UNCHANGED <<Request, full_text, all_tables, broker, note_date, note_number,
                   operations, fees, warnings, exc, result>>

\* l.486-488: if not raw_operations: parse_operations_from_table
BrTable ==
    /\ adapter = "br_nota" /\ pc = "table"
    /\ IF raw_operations = <<>>
       THEN /\ raw_operations' = parse_operations_from_table(all_tables)
            /\ calls' = Append(calls, "parse_operations_from_table")
       ELSE UNCHANGED <<raw_operations, calls>>
    /\ pc' = "text"
    /\ UNCHANGED <<Request, full_text, all_tables, broker, note_date, note_number,
                   operations, fees, warnings, exc, result>>

\* l.490-496: if not raw_operations: warn, parse_operations_from_text; if still
\* none: warn
BrText ==
    /\ adapter = "br_nota" /\ pc = "text"
    /\ IF raw_operations = <<>>
       THEN /\ raw_operations' = parse_operations_from_text(full_text)
            /\ calls' = Append(calls, "parse_operations_from_text")
            /\ warnings' =
                 Append(warnings, W("No operations found in tables, trying text parsing..."))
                 \o (IF raw_operations' = <<>>
                     THEN <<W("No operations found. The PDF format may not be supported.")>>
                     ELSE <<>>)
       ELSE UNCHANGED <<raw_operations, calls, warnings>>
    /\ pc' = "convert"
    /\ UNCHANGED <<Request, full_text, all_tables, broker, note_date, note_number,
                   operations, fees, exc, result>>

\* l.498-510: Operation(...) of one candidate
BrOperation(op, date) ==
    [ticker |-> op.ticker, name |-> None, type |-> op.type,
     asset_type |-> br_identify_asset_type(op.ticker),
     quantity |-> op.quantity, price |-> op.price, total |-> op.total,
     currency |-> "BRL", trade_date |-> FormatOpt(date)]

\* l.498-510: the loop that converts raw_operations to Operation models
BrConvert ==
    /\ adapter = "br_nota" /\ pc = "convert"
    /\ Convert([i \in DOMAIN raw_operations |-> BrOperation(raw_operations[i], note_date)], "fees")

\* l.512-513: fees = extract_fees(full_text)
BrFees ==
    /\ adapter = "br_nota" /\ pc = "fees"
    /\ calls' = Append(calls, "extract_fees")
    /\ fees' = Some(extract_fees(full_text))
    /\ pc' = "return"
    /\ UNCHANGED <<Request, full_text, all_tables, broker, note_date, note_number,
                   raw_operations, operations, warnings, exc, result>>

\* l.520: the success flag br_nota.parse returns on the path without exception
BrSuccess == TRUE

\* the return with net_value = total_operations, the fees left out
BrReturnWithoutFees ==
    /\ adapter = "br_nota" /\ pc = "return"
    /\ Return([success |-> BrSuccess, broker |-> broker,
               note_date |-> FormatOpt(note_date), note_number |-> note_number,
               operations |-> operations, fees |-> fees,
               net_value |-> Some(Totals(operations)),
               currency |-> "BRL",
               raw_text |-> IF doc.debug THEN Some(Prefix(full_text, 2000)) ELSE None,
               warnings |-> warnings])

\* l.515-530: net_value = total_operations + fees.total; return ParseResponse(...)
BrReturn ==
    /\ adapter = "br_nota" /\ pc = "return"
    /\ Return([success |-> BrSuccess, broker |-> broker,
               note_date |-> FormatOpt(note_date), note_number |-> note_number,
               operations |-> operations, fees |-> fees,
               net_value |-> Some(Totals(operations) + fees[1].total),
               currency |-> "BRL",
               raw_text |-> IF doc.debug THEN Some(Prefix(full_text, 2000)) ELSE None,
               warnings |-> warnings])

\* l.532-536: except Exception as e
BrExcept == adapter = "br_nota" /\ pc = "except" /\ Fault("Parse error: ")

----------------------------------------------------------------------------
(* avenue.parse *)

UsPasswordWarning == W("PDF is password-protected. Please provide the password.")

\* l.166-176
AvOpen == adapter = "avenue" /\ pc = "open" /\ OpenWithPassword(UsPasswordWarning)

\* l.178-187
AvPages == adapter = "avenue" /\ pc = "pages" /\ ReadPages("identify")

\* l.189-197
AvIdentify ==
    /\ adapter = "avenue" /\ pc = "identify"
    /\ calls' = Append(calls, "identify_broker")
    /\ broker' = av_broker(Lower(full_text))
    /\ warnings' = WarnIf(broker' = None, "Could not confirm this is an Avenue document")
    /\ pc' = "date"
    /\ UNCHANGED <<Request, full_text, all_tables, note_date, note_number,
                   raw_operations, operations, fees, exc, result>>

\* l.199-222
AvDate ==
    /\ adapter = "avenue" /\ pc = "date"
    /\ calls' = Append(calls, "extract_date")
    /\ note_date' = av_note_date(Lower(full_text))
    /\ warnings' = WarnIf(note_date' = None, "Could not extract trade date")
    /\ pc' = "extract"
    /\ UNCHANGED <<Request, full_text, all_tables, broker, note_number,
                   raw_operations, operations, fees, exc, result>>

\* l.224-228: raw_operations = parse_avenue_text(full_text)
AvExtract ==
    /\ adapter = "avenue" /\ pc = "extract"
    /\ calls' = Append(calls, "parse_avenue_text")
    /\ raw_operations' = parse_avenue_text(full_text)
    /\ warnings' = WarnIf(raw_operations' = <<>>,
                          "No transactions found. The PDF format may have changed.")
    /\ pc' = "convert"
    /\ UNCHANGED <<Request, full_text, all_tables, broker, note_date, note_number,
                   operations, fees, exc, result>>

\* l.233-242: Operation(...) of one candidate
AvOperation(op) ==
    [ticker |-> op.symbol, name |-> None, type |-> op.type,
     asset_type |-> av_identify_asset_type(op.symbol, <<>>),
     quantity |-> op.quantity, price |-> op.price, total |-> op.total,
     currency |-> "USD", trade_date |-> FormatOpt(op.trade_date)]

\* l.230-242
AvConvert ==
    /\ adapter = "avenue" /\ pc = "convert"
    /\ Convert([i \in DOMAIN raw_operations |-> AvOperation(raw_operations[i])], "return")

\* l.248, l.271 and generic l.193: success=len(operations) > 0
HasOperations == Len(operations) > 0

\* l.244-257
AvReturn ==
    /\ adapter = "avenue" /\ pc = "return"
    /\ Return([success |-> HasOperations, broker |-> broker,
               note_date |-> FormatOpt(note_date), note_number |-> None,
               operations |-> operations, fees |-> Some(Fees0),
               net_value |-> Some(Totals(operations)),
               currency |-> "USD",
               raw_text |-> IF doc.debug THEN Some(Prefix(full_text, 2000)) ELSE None,
               warnings |-> warnings])

\* l.259-263
AvExcept == adapter = "avenue" /\ pc = "except" /\ Fault("Parse error: ")

----------------------------------------------------------------------------
(* inter_global.parse *)

\* l.197-207
IgOpen == adapter = "inter_global" /\ pc = "open" /\ OpenWithPassword(UsPasswordWarning)

\* l.209-218
IgPages == adapter = "inter_global" /\ pc = "pages" /\ ReadPages("identify")

\* l.220-229
IgIdentify ==
    /\ adapter = "inter_global" /\ pc = "identify"
    /\ calls' = Append(calls, "identify_broker")
    /\ broker' = ig_broker(Lower(full_text))
    /\ warnings' = WarnIf(broker' = None, "Could not confirm this is an Inter Global document")
    /\ pc' = "date"
    /\ UNCHANGED <<Request, full_text, all_tables, note_date, note_number,
                   raw_operations, operations, fees, exc, result>>

\* l.231-241
IgDate ==
    /\ adapter = "inter_global" /\ pc = "date"
    /\ calls' = Append(calls, "extract_date")
    /\ note_date' = ig_note_date(Lower(full_text))
    /\ warnings' = WarnIf(note_date' = None, "Could not extract confirmation date")
    /\ pc' = "text"
    /\ UNCHANGED <<Request, full_text, all_tables, broker, note_number,
                   raw_operations, operations, fees, exc, result>>

\* l.244: raw_operations = parse_inter_global_text(full_text)
IgText ==
    /\ adapter = "inter_global" /\ pc = "text"
    /\ calls' = Append(calls, "parse_inter_global_text")
    /\ raw_operations' = parse_inter_global_text(full_text)
    /\ pc' = "tables"
    /\ UNCHANGED <<Request, full_text, all_tables, broker, note_date, note_number,
                   operations, fees, warnings, exc, result>>

\* l.246-250: if not raw_operations: parse_inter_global_tables; if still
\* none: warn
IgTables ==
    /\ adapter = "inter_global" /\ pc = "tables"
    /\ IF raw_operations = <<>>
       THEN /\ raw_operations' = parse_inter_global_tables(all_tables, full_text)
            /\ calls' = Append(calls, "parse_inter_global_tables")
       ELSE UNCHANGED <<raw_operations, calls>>
    /\ warnings' = WarnIf(raw_operations' = <<>>, "No transactions found in the document")
    /\ pc' = "convert"
    /\ UNCHANGED <<Request, full_text, all_tables, broker, note_date, note_number,
                   operations, fees, exc, result>>

\* l.255-265: Operation(...) of one candidate
IgOperation(op) ==
    [ticker |-> op.symbol, name |-> Some(op.security), type |-> op.type,
     asset_type |-> ig_identify_asset_type(op.symbol, op.security),
     quantity |-> op.quantity, price |-> op.price, total |-> op.total,
     currency |-> "USD", trade_date |-> FormatOpt(op.trade_date)]

\* l.252-265
IgConvert ==
    /\ adapter = "inter_global" /\ pc = "convert"
    /\ Convert([i \in DOMAIN raw_operations |-> IgOperation(raw_operations[i])], "return")

\* l.267-280
IgReturn ==
    /\ adapter = "inter_global" /\ pc = "return"
    /\ Return([success |-> HasOperations, broker |-> broker,
               note_date |-> FormatOpt(note_date), note_number |-> None,
               operations |-> operations, fees |-> Some(Fees0),
               net_value |-> Some(Totals(operations)),
               currency |-> "USD",
               raw_text |-> IF doc.debug THEN Some(Prefix(full_text, 2000)) ELSE None,
               warnings |-> warnings])

\* l.282-286
IgExcept == adapter = "inter_global" /\ pc = "except" /\ Fault("Parse error: ")

----------------------------------------------------------------------------
(* generic.parse *)

\* l.142-145
GenOpen ==
    /\ adapter = "generic" /\ pc = "open"
    /\ OpenPlain(<<W("Using generic parser - results may be incomplete")>>)

\* l.145-154
GenPages == adapter = "generic" /\ pc = "pages" /\ ReadPages("extract")

\* l.166-167: op.currency = currency for every operation
WithCurrency(ops, currency) == [i \in DOMAIN ops |-> [ops[i] EXCEPT !.currency = currency]]

\* l.163-170 over the operations extract_operations_from_tables builds; the
\* first Operation(...) that fails validation raises out of the function
GenExtracted(ops) ==
    IF \A i \in DOMAIN ops : OperationValid(ops[i])
    THEN /\ operations' = WithCurrency(ops, gen_currency(full_text))
         /\ warnings' = WarnIf(ops = <<>>,
                               "No operations could be extracted. Please check the PDF format.")
         /\ pc' = "date" /\ exc' = exc
    ELSE /\ exc' = Some(ValidationError) /\ pc' = "except"
         /\ UNCHANGED <<operations, warnings>>

\* l.156-170
GenExtract ==
    /\ adapter = "generic" /\ pc = "extract"
    /\ calls' = Append(calls, "extract_operations_from_tables")
    /\ GenExtracted(extract_operations_from_tables(all_tables))
    /\ UNCHANGED <<Request, full_text, all_tables, broker, note_date, note_number,
                   raw_operations, fees, result>>

\* l.172-188
GenDate ==
    /\ adapter = "generic" /\ pc = "date"
    /\ calls' = Append(calls, "extract_date")
    /\ note_date' = gen_date_from(full_text, 1)
    /\ pc' = "return"
    /\ UNCHANGED <<Request, full_text, all_tables, broker, note_number,
                   raw_operations, operations, fees, warnings, exc, result>>

\* l.190-202
GenReturn ==
    /\ adapter = "generic" /\ pc = "return"
    /\ Return([success |-> HasOperations, broker |-> None,
               note_date |-> FormatOpt(note_date), note_number |-> None,
               operations |-> operations, fees |-> Some(Fees0),
               net_value |-> Some(Totals(operations)),
               currency |-> gen_currency(full_text),
               raw_text |-> IF operations = <<>> THEN Some(Prefix(full_text, 1000)) ELSE None,
               warnings |-> warnings])

\* l.204-208
GenExcept == adapter = "generic" /\ pc = "except" /\ Fault("Generic parse error: ")

----------------------------------------------------------------------------
(* ibkr.parse, parse_pdf, parse_csv *)

\* ibkr.py l.245-248: parse_csv if is_csv, parse_pdf otherwise
IbDispatch ==
    /\ adapter = "ibkr" /\ pc = "dispatch"
    /\ pc' = IF doc.is_csv THEN "decode" ELSE "open"
    /\ calls' = Append(calls, IF doc.is_csv THEN "parse_csv" ELSE "parse_pdf")
    /\ UNCHANGED <<Request, full_text, all_tables, broker, note_date, note_number,
                   raw_operations, operations, fees, warnings, exc, result>>

\* l.132-136
IbOpen == adapter = "ibkr" /\ pc = "open" /\ OpenPlain(<<>>)

\* l.136-145
IbPages == adapter = "ibkr" /\ pc = "pages" /\ ReadPages("scan")

\* l.147-206 over the outcome of the loop
IbScanned(acc) ==
    IF acc.fatal # None
    THEN /\ exc' = acc.fatal /\ pc' = "except"
         /\ UNCHANGED <<operations, warnings>>
    ELSE /\ operations' = acc.operations
         /\ warnings' = WarnIf(acc.operations = <<>>,
                "No trades found in PDF. Consider using CSV export for better results.")
         /\ pc' = "fees" /\ exc' = exc

\* l.147-206: the loop over the rows of all tables, then the warning
IbScan ==
    /\ adapter = "ibkr" /\ pc = "scan"
    /\ calls' = Append(calls, "scan_tables")
    /\ IbScanned(ib_rows(Flatten(all_tables), 1,
                         [in_trades_section |-> FALSE, operations |-> <<>>, fatal |-> None]))
    /\ UNCHANGED <<Request, full_text, all_tables, broker, note_date, note_number,
                   raw_operations, fees, result>>

\* l.208-213 over the outcome of the fee search
IbFeesFound(f) ==
    IF f = None THEN exc' = Some(FloatError) /\ pc' = "except" /\ fees' = fees
    ELSE fees' = f /\ pc' = "return" /\ exc' = exc

\* l.208-213
IbFees ==
    /\ adapter = "ibkr" /\ pc = "fees"
    /\ calls' = Append(calls, "extract_fees")
    /\ IbFeesFound(ib_fees(full_text))
    /\ UNCHANGED <<Request, full_text, all_tables, broker, note_date, note_number,
                   raw_operations, operations, warnings, result>>

\* l.215-225 and l.106-116
IbResponse ==
    [success |-> TRUE, broker |-> Some("Interactive Brokers"),
     note_date |-> None, note_number |-> None,
     operations |-> operations, fees |-> fees,
     net_value |-> Some(Totals(operations) + fees[1].total),
     currency |-> "USD", raw_text |-> None, warnings |-> warnings]

\* l.215-225
IbReturn == adapter = "ibkr" /\ pc = "return" /\ Return(IbResponse)

\* l.227-231
IbExcept == adapter = "ibkr" /\ pc = "except" /\ Fault("PDF parse error: ")

\* str(e) of the UnicodeDecodeError raised by csv_bytes.decode('utf-8')
DecodeError == <<"'","u","t","f","-","8","'",SP,"c","o","d","e","c",SP,"c","a","n","'","t",SP,"d","e","c","o","d","e",SP,"b","y","t","e">>

\* l.41-48: text = csv_bytes.decode('utf-8'); reader = csv.DictReader(...)
CsvDecode ==
    /\ adapter = "ibkr" /\ pc = "decode"
    /\ calls' = Append(calls, "decode")
    /\ IF doc.open.kind = "decode_error"
       THEN exc' = Some(DecodeError) /\ pc' = "csv_except"
       ELSE exc' = exc /\ pc' = "rows"
    /\ UNCHANGED <<Request, full_text, all_tables, broker, note_date, note_number,
                   raw_operations, operations, fees, warnings, result>>

\* l.50-105 over the outcome of the loop
CsvScanned(acc) ==
    IF acc.fatal # None
    THEN /\ exc' = acc.fatal /\ pc' = "csv_except"
         /\ UNCHANGED <<operations, warnings, fees>>
    ELSE /\ operations' = acc.operations
         /\ warnings' = acc.warnings
         /\ fees' = Some([Fees0 EXCEPT !.brokerage = acc.total_fees, !.total = acc.total_fees])
         /\ pc' = "csv_return" /\ exc' = exc

\* l.50-105: the loop over the rows, then fees = Fees(brokerage=total_fees,
\* total=total_fees)
CsvRows ==
    /\ adapter = "ibkr" /\ pc = "rows"
    /\ calls' = Append(calls, "rows")
    /\ CsvScanned(csv_rows(doc.rows, 1,
                           [operations |-> <<>>, warnings |-> <<>>, total_fees |-> 0,
                            fatal |-> None]))
    /\ UNCHANGED <<Request, full_text, all_tables, broker, note_date, note_number,
                   raw_operations, result>>

\* l.106-116
CsvReturn == adapter = "ibkr" /\ pc = "csv_return" /\ Return(IbResponse)

\* l.118-122
CsvExcept == adapter = "ibkr" /\ pc = "csv_except" /\ Fault("CSV parse error: ")

----------------------------------------------------------------------------
(* The requests *)

\* a document holds at most MaxItems text lines and table rows together, a
\* CSV export at most MaxItems data rows
MaxItems == 2

RECURSIVE SeqsOfLen(_, _)
\* the sequences over S of length n
SeqsOfLen(S, n) ==
    IF n = 0 THEN {<<>>}
    ELSE {Append(s, x) : s \in SeqsOfLen(S, n - 1), x \in S}

\* the sequences over S of length at most n
SeqsUpTo(S, n) == UNION {SeqsOfLen(S, k) : k \in 0..n}

\* the outcomes of the decoder
Opened == [kind |-> "ok", desc |-> <<>>]
DecoderFaults ==
    {[kind |-> "open_error", desc |-> <<"F","i","l","e",SP,"i","s",SP,"e","n","c","r","y","p","t","e","d">>],
     [kind |-> "open_error", desc |-> <<"I","n","c","o","r","r","e","c","t",SP,"P","a","s","s","w","o","r","d">>],
     [kind |-> "open_error", desc |-> <<"N","o",SP,"/","R","o","o","t",SP,"o","b","j","e","c","t">>],
     [kind |-> "page_error", desc |-> <<"U","n","e","x","p","e","c","t","e","d",SP,"E","O","F">>]}

\* page.extract_tables() for the rows rs: no table, one empty table, one
\* table, or two tables
TablesOf(rs) ==
    IF rs = <<>> THEN {<<>>, << <<>> >>}
    ELSE {<<rs>>} \cup {<<SubSeq(rs, 1, k), From(rs, k + 1)>> : k \in 1..(Len(rs) - 1)}

\* the pages of the documents of one family: one page with text lines and rows
Pages(lines, rows) ==
    UNION {UNION {{<<[text |-> JoinWith(ls, <<NL>>), tables |-> tb]>> : tb \in TablesOf(rs)} :
                     rs \in SeqsUpTo(rows, MaxItems - Len(ls))} :
              ls \in SeqsUpTo(lines, MaxItems)}

PdfRequest(o, pages, debug) ==
    [open |-> o, pages |-> pages, debug |-> debug, is_csv |-> FALSE, rows |-> <<>>]

PdfRequests(lines, rows, flags) ==
    {PdfRequest(o, <<>>, FALSE) : o \in DecoderFaults}
    \cup {PdfRequest(Opened, p, d) : p \in Pages(lines, rows), d \in flags}

BrLines ==
    {<<"P","E","T","R","4",SP,"C",SP,"1","0","0",SP,"3","5",",","5","0",SP,"3","5","5","0",",","0","0">>,
     <<"1","-","B","O","V","E","S","P","A",SP,"C",SP,"C","E","M","I","G",SP,"1","0",SP,"1","1",",","3","0",SP,"1","1","3",",","0","0",SP,"D">>,
     <<"c","o","r","r","e","t","a","g","e","m",":",SP,"4",",","9","0">>,
     <<"t","a","x","a",SP,"d","e",SP,"c","o","r","r","e","t","a","g","e","m",":",SP,"5",",","0","0">>,
     <<"c","o","r","r","e","t","a","g","e","m",":",SP,".">>,
     <<"I","S","S",SP,"0",",","2","5",SP,"T","o","t","a","l",SP,"5",",","1","5">>,
     <<"R","I","C","O",SP,"C","O","R","R","E","T","O","R","A",SP,"1","5","/","0","1","/","2","0","2","4">>,
     <<"X","P",SP,"I","N","V","E","S","T","I","M","E","N","T","O","S",SP,"-",SP,"C","L","E","A","R",SP,"C","O","R","R","E","T","O","R","A">>,
     <<"V","A","L","E","3",SP,"V",SP,"F","R","A","C","I","O","N","A","R","I","O",SP,"1","0",SP,"1","1",",","3","0",SP,"1","1","3",",","0","0">>,
     <<"V","A","L","E","3",SP,"V",SP,"F","R","A","C","I","O","N","A","R","I","O",SP,"1","0",SP,"1","1",",","3","0",SP,"2","0","0",",","0","0">>,
     <<"h","e","l","l","o">>}

BrRows ==
    {<<<<"P","E","T","R","4">>, <<"C">>, <<"1","0","0">>, <<"3","5",",","5","0">>, <<"3","5","5","0",",","0","0">>>>,
     <<<<"V","A","L","E","3",SP,"v","e","n","d","a">>, <<>>, <<"0",",","5","0">>, <<"7",",","2","5">>>>,
     <<<<"T","o","t","a","l">>, <<"3","5","5","0",",","0","0">>>>}

AvLines ==
    {<<"1",SP,"B",SP,"1","2","/","1","6","/","2","2",SP,"1","2","/","2","0","/","2","2",SP,"0",".","5","0",SP,"A","M","Z","N",SP,"8","7",".","0","0",SP,"4","3",".","5","0">>,
     <<"2",SP,"S",SP,"1","2","/","1","6","/","2","2",SP,"1","2","/","2","0","/","2","2",SP,"1",".","5","0",SP,"A","M","Z","N",SP,"-","5",SP,"x",SP,"y">>,
     <<"1",SP,"B",SP,"1","2","/","1","6","/","2","2",SP,"1","2","/","2","0","/","2","2",SP,"2",".","0","0",SP,"S","P","Y",SP,"a","b","c",SP,"x">>,
     <<"A","v","e","n","u","e",SP,"C","u","r","r","e","n","t",SP,"T","r","a","d","e",SP,"D","a","t","e",":",SP,"1","2","/","1","6","/","2","2">>,
     <<"h","e","l","l","o">>}

IgLines ==
    {<<"A","A","P","L",SP,"S","e","l","l",SP,"5","0",SP,"1","8","5",".","5","0">>,
     <<"M","S","F","T",SP,"x","9",SP,"B","u","y",SP,"2",SP,"1","0",".","0","0",SP,"1","0","/","3","1","/","2","0","2","5">>,
     <<"I","n","t","e","r",SP,"C","o",SP,"S","e","c","u","r","i","t","i","e","s",SP,"C","o","n","f","i","r","m","a","t","i","o","n",SP,"D","a","t","e",":",SP,"1","0","/","3","1","/","2","0","2","5">>,
     <<"h","e","l","l","o">>}

IgRows ==
    {<<<<"M","S","F","T",SP,"x","9">>, <<"B","u","y">>, <<"2">>, <<"1","0",".","0","0">>>>,
     <<<<"T","L","T">>, <<"s","e","l","l",SP,"3">>, <<"9","0",".","2","5">>>>,
     <<<<"T","o","t","a","l">>, <<"3","5","5","0",".","0","0">>>>}

GenLines ==
    {<<"U","S","D",SP,"2","0","2","4","-","0","1","-","1","5">>,
     <<"h","e","l","l","o">>}

GenRows ==
    {<<<<"A","A","P","L">>, <<"1","0">>, <<"5">>, <<"5","4">>>>,
     <<<<"P","E","T","R","4",SP,"v","e","n","d","a">>, <<"1",".","0","0","0",",","5","0">>, <<"2">>>>,
     <<<<"A","A","P","L">>, <<"0">>, <<"5">>>>,
     <<<<"A","A","P","L">>, <<"1","0">>, <<"0">>>>,
     <<<<"U","S","D">>, <<"A","A","P","L">>, <<"1","0">>, <<"5">>>>,
     <<<<"S","y","m","b","o","l">>, <<"Q","t","y">>>>}

IbLines ==
    {<<"T","o","t","a","l",SP,"C","o","m","m","i","s","s","i","o","n",":",SP,"1",".","5","0">>,
     <<"T","o","t","a","l",SP,"C","o","m","m","i","s","s","i","o","n",":",SP,".">>,
     <<"h","e","l","l","o">>}

IbRows ==
    {<<<<"T","r","a","d","e","s">>>>,
     <<<<"A","A","P","L">>, <<"-","1","0">>, <<"5",".","5","0">>, <<"5","6",".","0","0">>>>,
     <<<<"M","S","F","T">>, <<",">>, <<"5">>>>,
     <<<<"A","A","P","L">>, <<"0">>, <<"5">>>>}

\* one data row of csv.DictReader under the header Symbol, Date/Time,
\* Quantity, T. Price, Proceeds, Comm/Fee; a missing cell reads None
CsvRow(symbol, date, quantity, price, proceeds, fee) ==
    [c \in {"Symbol", "Date/Time", "Quantity", "T. Price", "Proceeds", "Comm/Fee"} |->
        IF c = "Symbol" THEN symbol
        ELSE IF c = "Date/Time" THEN date
        ELSE IF c = "Quantity" THEN quantity
        ELSE IF c = "T. Price" THEN price
        ELSE IF c = "Proceeds" THEN proceeds
        ELSE fee]

CsvRowSet ==
    {CsvRow(Some(<<"A","A","P","L">>), Some(<<"2","0","2","4","0","1","1","5">>), Some(<<"1","0","0">>), Some(<<"1","8","5",".","5","0">>),
            Some(<<"1","8","5","5","0",".","0","0">>), Some(<<"-","1",".","0","0">>)),
     CsvRow(Some(<<"M","S","F","T">>), Some(<<"2","0","2","4","-","0","1","-","1","5">>), Some(<<"-","5","0">>), Some(<<"3","8","0",".","2","5">>),
            Some(<<"-","1","9","0","1","2",".","5","0">>), Some(<<"-","1",".","0","0">>)),
     CsvRow(Some(<<>>), Some(<<>>), Some(<<"7">>), Some(<<"1">>), Some(<<"7">>), Some(<<"0">>)),
     CsvRow(Some(<<"A","A","P","L">>), Some(<<>>), Some(<<"a","b","c">>), Some(<<"1">>), Some(<<"1">>), Some(<<"0">>)),
     CsvRow(Some(<<"A","A","P","L">>), None, None, None, None, None),
     CsvRow(Some(<<"A","A","P","L">>), Some(<<>>), Some(<<"0">>), Some(<<"5">>), Some(<<"0">>), Some(<<"-","2",".","0","0">>)),
     CsvRow(Some(<<"A","A","P","L">>), Some(<<>>), Some(<<"1","0">>), Some(<<"5">>), Some(<<"5","4">>), Some(<<"0">>)),
     CsvRow(Some(<<"T","L","T">>), Some(<<>>), Some(<<"1","0">>), Some(<<"-","5">>), Some(<<"5","0">>), Some(<<"-","1",".","0","0">>))}

CsvRequests ==
    {[open |-> [kind |-> "decode_error", desc |-> <<>>], pages |-> <<>>, debug |-> FALSE,
      is_csv |-> TRUE, rows |-> <<>>]}
    \cup {[open |-> Opened, pages |-> <<>>, debug |-> FALSE, is_csv |-> TRUE, rows |-> rs] :
             rs \in SeqsUpTo(CsvRowSet, MaxItems)}

\* statements of one table: the Trades header, then MaxItems rows
IbTradesRequests ==
    {PdfRequest(Opened, <<[text |-> <<>>, tables |-> << <<<<<<"T","r","a","d","e","s">>>>>> \o rs >>]>>, FALSE) :
        rs \in SeqsOfLen(IbRows \ {<<<<"T","r","a","d","e","s">>>>}, MaxItems)}

Requests(a) ==
    IF a = "br_nota" THEN PdfRequests(BrLines, BrRows, BOOLEAN)
    ELSE IF a = "avenue" THEN PdfRequests(AvLines, {}, BOOLEAN)
    ELSE IF a = "inter_global" THEN PdfRequests(IgLines, IgRows, BOOLEAN)
    ELSE IF a = "generic" THEN PdfRequests(GenLines, GenRows, {FALSE})
    ELSE PdfRequests(IbLines, IbRows, {FALSE}) \cup IbTradesRequests \cup CsvRequests

\* the module-level objects of the parsers as the import leaves them
ModuleTables ==
    [BROKER_PATTERNS |-> BROKER_PATTERNS, BR_TICKER_PATTERN |-> BR_TICKER_PATTERN,
     FII_PATTERN |-> FII_PATTERN, BR_ETFS |-> BR_ETFS,
     STOCK_NAME_TO_TICKER |-> STOCK_NAME_TO_TICKER,
     US_ETFS |-> US_ETFS,
     TICKER_PATTERNS |-> TICKER_PATTERNS, TICKER_BLACKLIST |-> TICKER_BLACKLIST]

Adapters == {"br_nota", "avenue", "inter_global", "generic", "ibkr"}

Init ==
    /\ adapter \in Adapters
    /\ doc \in Requests(adapter)
    /\ pc = IF adapter = "ibkr" THEN "dispatch" ELSE "open"
    /\ full_text = <<>> /\ all_tables = <<>>
    /\ broker = None /\ note_date = None /\ note_number = None
    /\ raw_operations = <<>> /\ operations = <<>> /\ fees = None
    /\ warnings = <<>> /\ calls = <<>> /\ exc = None /\ result = None
    /\ upload = None /\ status = None
    /\ globals = ModuleTables /\ served = <<>>

Next ==
    \/ BrOpen \/ BrPages \/ BrIdentify \/ BrDate \/ BrRico \/ BrTable \/ BrText
    \/ BrConvert \/ BrFees \/ BrReturn \/ BrExcept
    \/ AvOpen \/ AvPages \/ AvIdentify \/ AvDate \/ AvExtract \/ AvConvert
    \/ AvReturn \/ AvExcept
    \/ IgOpen \/ IgPages \/ IgIdentify \/ IgDate \/ IgText \/ IgTables \/ IgConvert
    \/ IgReturn \/ IgExcept
    \/ GenOpen \/ GenPages \/ GenExtract \/ GenDate \/ GenReturn \/ GenExcept
    \/ IbDispatch \/ IbOpen \/ IbPages \/ IbScan \/ IbFees \/ IbReturn \/ IbExcept
    \/ CsvDecode \/ CsvRows \/ CsvReturn \/ CsvExcept

Spec == Init /\ [][Next]_vars

----------------------------------------------------------------------------
(* main.py: the endpoints in front of the entry points *)

\* l.27: 10MB in bytes
MAX_FILE_SIZE == 10 * 1024 * 1024

\* s.endswith(ext)
EndsWith(s, ext) == Len(s) >= Len(ext) /\ From(s, Len(s) - Len(ext) + 1) = ext

\* the name compared without lowercasing it
NameAllowedAsWritten(filename, allowed_extensions) ==
    \E ext \in allowed_extensions : EndsWith(IF filename = None THEN <<>> ELSE filename[1], ext)

\* l.72-73: filename_lower = file.filename.lower() if file.filename else "";
\* any(filename_lower.endswith(ext) for ext in allowed_extensions)
NameAllowed(filename, allowed_extensions) ==
    \E ext \in allowed_extensions :
        EndsWith(IF filename = None THEN <<>> ELSE Lower(filename[1]), ext)

\* l.123, l.143, l.163, l.183, l.203: the allowed_extensions of each endpoint
allowed_extensions(a) == IF a = "ibkr" THEN {<<".","p","d","f">>, <<".","c","s","v">>} ELSE {<<".","p","d","f">>}

\* l.144: is_csv = file.filename.lower().endswith('.csv') if file.filename else False
IsCsvName(filename) == filename # None /\ EndsWith(Lower(filename[1]), <<".","c","s","v">>)

\* raise HTTPException(status_code=code, detail=detail)
HTTPException(code, detail) == Some([status_code |-> code, detail |-> detail])

\* l.71-77: the extension test of validate_file, before file.read()
ValidateExtension ==
    /\ pc = "validate"
    /\ calls' = Append(calls, "validate_file")
    /\ IF NameAllowed(upload[1].filename, allowed_extensions(adapter))
       THEN pc' = "read" /\ status' = status
       ELSE /\ pc' = "rejected"
            /\ status' = HTTPException(400, "File must be one of: ")
    /\ UNCHANGED <<adapter, doc, upload, globals, served, full_text, all_tables, broker, note_date, note_number,
                   raw_operations, operations, fees, warnings, exc, result>>

\* l.79-90: contents = await file.read(), the two tests of its length, and
\* the call of the entry point with the contents
ValidateContents ==
    /\ pc = "read"
    /\ calls' = Append(calls, "read")
    /\ IF upload[1].size > MAX_FILE_SIZE
       THEN pc' = "rejected" /\ status' = HTTPException(413, "File too large. Maximum size is ")
       ELSE IF upload[1].size = 0
       THEN pc' = "rejected" /\ status' = HTTPException(400, "File is empty")
       ELSE pc' = (IF adapter = "ibkr" THEN "dispatch" ELSE "open") /\ status' = status
    /\ UNCHANGED <<adapter, doc, upload, globals, served, full_text, all_tables, broker, note_date, note_number,
                   raw_operations, operations, fees, warnings, exc, result>>

\* l.124-125: return result, served as 200 with the ParseResponse as body; the
\* entry points catch Exception themselves, so the handlers of l.126-128 see
\* only the HTTPException of validate_file
Respond ==
    /\ pc = "done" /\ upload # None
    /\ status' = Some([status_code |-> 200, detail |-> ""])
    /\ pc' = "responded"
    /\ UNCHANGED <<adapter, doc, upload, globals, served, full_text, all_tables, broker, note_date, note_number,
                   raw_operations, operations, fees, warnings, calls, exc, result>>

\* the names and lengths of the uploaded files
FileNames ==
    {None, Some(<<>>), Some(<<"n","o","t","a",".","p","d","f">>), Some(<<"N","O","T","A",".","P","D","F">>), Some(<<"t","r","a","d","e","s",".","c","s","v">>),
     Some(<<"n","o","t","a",".","p","d","f",".","e","x","e">>), Some(<<"n","o","t","a",".","t","x","t">>), Some(<<"p","d","f">>)}
FileSizes == {0, 1, MAX_FILE_SIZE, MAX_FILE_SIZE + 1}
Uploads == {Some([filename |-> f, size |-> n]) : f \in FileNames, n \in FileSizes}

\* a small file of the kind its name announces
SmallFile(a, filename) ==
    IF a = "ibkr" /\ IsCsvName(filename)
    THEN [open |-> Opened, pages |-> <<>>, debug |-> FALSE, is_csv |-> TRUE, rows |-> <<>>]
    ELSE PdfRequest(Opened, <<[text |-> <<"h","e","l","l","o">>, tables |-> <<>>]>>, FALSE)

\* every upload with a small file, and every document of the adapter under
\* a plain name
UploadInit ==
    /\ adapter \in Adapters
    /\ \/ /\ upload \in Uploads
          /\ doc = SmallFile(adapter, upload[1].filename)
       \/ /\ doc \in Requests(adapter)
          /\ upload = Some([filename |-> Some(IF doc.is_csv THEN <<"t","r","a","d","e","s",".","c","s","v">> ELSE <<"n","o","t","a",".","p","d","f">>),
                            size |-> 1])
    /\ pc = "validate"
    /\ full_text = <<>> /\ all_tables = <<>>
    /\ broker = None /\ note_date = None /\ note_number = None
    /\ raw_operations = <<>> /\ operations = <<>> /\ fees = None
    /\ warnings = <<>> /\ calls = <<>> /\ exc = None /\ result = None
    /\ status = None
    /\ globals = ModuleTables /\ served = <<>>

UploadNext == ValidateExtension \/ ValidateContents \/ Respond \/ Next

UploadSpec == UploadInit /\ [][UploadNext]_vars

----------------------------------------------------------------------------
(* The numeric conversions on their own *)

\* a token has at most MaxGroups groups of thousands
MaxGroups == 1

LeadGroups == {<<"1">>, <<"7">>, <<"1","2">>}
ThousandGroups == {<<"0","0","0">>, <<"2","3","4">>, <<"5","6","7">>}
\* no decimal part, or two decimals
Fractions == {<<>>, <<"0","0">>, <<"5","0">>, <<"5","6">>}

\* the integer part lead, groups with the fraction frac, written with the
\* separators thousands and decimal
Written(lead, groups, frac, thousands, decimal) ==
    JoinWith(<<lead>> \o groups, <<thousands>>)
        \o (IF frac = <<>> THEN <<>> ELSE <<decimal>> \o frac)

\* the value written, in hundredths
ValueOf(lead, groups, frac) == DigitsToInt(lead \o Flatten(groups)) * Scale + DigitsToInt(frac)

\* the tokens of the Brazilian ("." thousands, "," decimal) and of the US
\* convention ("," thousands, "." decimal) with the values they represent
NumTokens ==
    {[convention |-> c,
      token |-> IF c = "BR" THEN Written(l, g, f, ".", ",") ELSE Written(l, g, f, ",", "."),
      value |-> ValueOf(l, g, f)] :
        l \in LeadGroups, g \in SeqsUpTo(ThousandGroups, MaxGroups), f \in Fractions,
        c \in {"BR", "US"}}

\* generic reads tokens of both conventions, br_nota Brazilian tokens
NumInit ==
    /\ adapter \in {"generic", "br_nota"}
    /\ doc \in NumTokens
    /\ adapter = "br_nota" => doc.convention = "BR"
    /\ pc = "token"
    /\ full_text = <<>> /\ all_tables = <<>>
    /\ broker = None /\ note_date = None /\ note_number = None
    /\ raw_operations = <<>> /\ operations = <<>> /\ fees = None
    /\ warnings = <<>> /\ calls = <<>> /\ exc = None /\ result = None
    /\ upload = None /\ status = None
    /\ globals = ModuleTables /\ served = <<>>

\* generic.py l.70-85: the conversion of one token of a row
GenNormalize ==
    /\ adapter = "generic" /\ pc = "token"
    /\ result' = Some(gen_float(doc.token))
    /\ calls' = <<"extract_operations_from_tables">>
    /\ pc' = "normalized"
    /\ UNCHANGED <<Request, full_text, all_tables, broker, note_date, note_number,
                   raw_operations, operations, fees, warnings, exc>>

\* br_nota.py l.351-359: the conversion of one token of a line
BrNormalize ==
    /\ adapter = "br_nota" /\ pc = "token"
    /\ result' = Some(ParseFloat(BrClean(doc.token)))
    /\ calls' = <<"parse_operations_from_text">>
    /\ pc' = "normalized"
    /\ UNCHANGED <<Request, full_text, all_tables, broker, note_date, note_number,
                   raw_operations, operations, fees, warnings, exc>>

NumNext == GenNormalize \/ BrNormalize

NumSpec == NumInit /\ [][NumNext]_vars

----------------------------------------------------------------------------
(* The symbol resolution of br_nota on its own *)

\* lines of a Rico note: a market marker, a ticker or none, a security name,
\* the numbers
ResolveMarkets == {<<"1","-","B","O","V","E","S","P","A",SP,"C",SP>>, <<"F","R","A","C","I","O","N","A","R","I","O",SP,"V",SP>>, <<"T","E","R","M","O",SP,"C",SP>>}
ResolveTickers == {<<>>, <<"P","E","T","R","4",SP>>, <<"V","A","L","E","3","F",SP>>}
ResolveNames ==
    {<<"C","E","M","I","G",SP,"P","N",SP,"N","1">>, <<"I","T","A","U","S","A",SP,"P","N">>, <<"I","T","A","U",SP,"U","N","I","B","A","N","C","O">>, <<"I","t","a","u","s","a">>, <<"B","A","N","C","O",SP,"D","O",SP,"B","R","A","S","I","L",SP,"O","N">>, <<"B","B",SP,"S","E","G","U","R","I","D","A","D","E",SP,"O","N">>,
     <<"B","R","A","D","E","S","C","O",SP,"P","N">>, <<"X","Y","Z",SP,"C","O","R","P">>, <<"A","M","B","E","V",SP,"S","/","A">>, <<"H","A","P","V","I","D","A",SP,"W","E","G">>, <<"I","T","A",SP,"U","S","A">>}
\* the numbers that end the line: a trade, totals that miss the product, too
\* few numbers, a total of 1, a zero, a difference of 0,90 and numbers equal to 1
ResolveNumbers ==
    {<<SP,"1","0",SP,"1","1",",","3","0",SP,"1","1","3",",","0","0",SP,"D">>, <<SP,"1","0",SP,"1","1",",","3","0",SP,"2","0","0",",","0","0",SP,"D">>, <<SP,"1","0",SP,"1","1",",","3","0",SP,"1","1","4",",","0","0",SP,"D">>, <<SP,"1","0",SP,"1","1",",","3","0",SP,"D">>,
     <<SP,"2",SP,"0",",","5","0",SP,"1",",","0","0",SP,"D">>, <<SP,"0",SP,"1","0",SP,"1","1",",","3","0",SP,"1","1","3",",","9","0",SP,"D">>, <<SP,"1",",","0","0",SP,"1","0",SP,"1",SP,"1","1",",","3","0",SP,"1","1","3",",","0","0",SP,"D">>}
ResolveLines ==
    {market \o ticker \o name \o numbers :
        market \in ResolveMarkets, ticker \in ResolveTickers, name \in ResolveNames,
        numbers \in ResolveNumbers}

ResolveInit ==
    /\ adapter = "br_nota"
    /\ doc \in [line : ResolveLines]
    /\ pc = "line"
    /\ full_text = <<>> /\ all_tables = <<>>
    /\ broker = None /\ note_date = None /\ note_number = None
    /\ raw_operations = <<>> /\ operations = <<>> /\ fees = None
    /\ warnings = <<>> /\ calls = <<>> /\ exc = None /\ result = None
    /\ upload = None /\ status = None
    /\ globals = ModuleTables /\ served = <<>>

\* l.238-302 of br_nota.py: one line of parse_rico_format
RicoResolve ==
    /\ pc = "line"
    /\ result' = rico_line(doc.line)
    /\ pc' = "rico"
    /\ UNCHANGED <<Request, full_text, all_tables, broker, note_date, note_number,
                   raw_operations, operations, fees, warnings, calls, exc>>

\* l.217-225 of br_nota.py
NameResolve ==
    /\ pc = "line"
    /\ result' = name_to_ticker(doc.line)
    /\ pc' = "named"
    /\ UNCHANGED <<Request, full_text, all_tables, broker, note_date, note_number,
                   raw_operations, operations, fees, warnings, calls, exc>>

ResolveNext == RicoResolve \/ NameResolve

ResolveSpec == ResolveInit /\ [][ResolveNext]_vars

----------------------------------------------------------------------------
(* The row loop of ibkr.parse_pdf, one row at a time *)

\* rows of a statement: section headers, a summary header, trades, an empty
\* row and a trade of quantity 0
LatchRows ==
    {<<<<"T","r","a","d","e","s">>>>,
     <<<<"T","r","a","d","e","s",SP,"S","u","m","m","a","r","y">>>>,
     <<<<"A","c","c","o","u","n","t">>, <<"T","R","A","D","E","S">>, <<"U","S","D">>>>,
     <<<<"A","A","P","L">>, <<"-","1","0">>, <<"5",".","5","0">>, <<"5","6",".","0","0">>>>,
     <<<<"M","S","F","T">>, <<"5">>, <<"2">>>>,
     <<<<>>, <<>>>>,
     <<<<"A","A","P","L">>, <<"0">>, <<"5">>>>}

\* the tables of a statement of at most MaxItems + 1 rows, in one table or two
LatchTables == UNION {TablesOf(rs) : rs \in SeqsUpTo(LatchRows, MaxItems + 1)}

\* l.147-148: the state before the loop; result holds the locals of the loop,
\* the latch in_trades_section and the operations appended so far, and calls
\* has one entry for each row the loop has visited
LatchInit ==
    /\ adapter = "ibkr"
    /\ doc \in {PdfRequest(Opened, <<[text |-> <<>>, tables |-> tb]>>, FALSE) : tb \in LatchTables}
    /\ pc = "rows"
    /\ full_text = <<NL>> /\ all_tables = PagesTables(doc.pages)
    /\ broker = None /\ note_date = None /\ note_number = None
    /\ raw_operations = <<>> /\ operations = <<>> /\ fees = None
    /\ warnings = <<>> /\ calls = <<>> /\ exc = None
    /\ result = [in_trades_section |-> FALSE, operations |-> <<>>, fatal |-> None]
    /\ upload = None /\ status = None
    /\ globals = ModuleTables /\ served = <<>>

\* l.154-203: one iteration of the loop over the rows of all tables; an
\* exception leaves the loop
IbRowStep ==
    /\ pc = "rows" /\ result.fatal = None
    /\ Len(calls) < Len(Flatten(all_tables))
    /\ result' = IbAdd(result, ib_row(Flatten(all_tables)[Len(calls) + 1], result.in_trades_section))
    /\ calls' = Append(calls, "row")
    /\ UNCHANGED <<Request, full_text, all_tables, broker, note_date, note_number,
                   raw_operations, operations, fees, warnings, exc, pc>>

LatchNext == IbRowStep

LatchSpec == LatchInit /\ [][LatchNext]_vars

----------------------------------------------------------------------------
(* The asset classifiers on their own *)

ClassSymbols == {<<"S","P","Y">>, <<"T","L","T">>, <<"G","L","D">>, <<"A","A","P","L">>, <<"O">>, <<"A","A","P","L",SP,"2","4","0","1","1","9","C","1","5","0">>, <<"Z","N">>}
ClassDescriptions ==
    {<<>>, <<"V","a","n","g","u","a","r","d",SP,"S","&","P",SP,"5","0","0",SP,"E","T","F">>, <<"R","e","a","l","t","y",SP,"I","n","c","o","m","e",SP,"R","E","I","T">>, <<"R","E","I","T",SP,"E","T","F">>, <<"E","q","u","i","t","y",SP,"a","n","d",SP,"I","n","d","e","x",SP,"O","p","t","i","o","n","s">>,
     <<"F","u","t","u","r","e","s">>, <<"B","o","n","d","s">>, <<"U","S",SP,"T","r","e","a","s","u","r","y">>, <<"S","t","o","c","k","s">>}

\* tickers for identify_asset_type of br_nota: the ETF allowlist, fund shapes
\* and near misses of the shape
BrSymbols ==
    BR_ETFS \cup {<<"K","N","R","I","1","1">>, <<"T","A","E","E","1","1">>, <<"S","A","N","B","1","1">>, <<"P","E","T","R","4">>, <<"V","A","L","E","3">>, <<"B","O","V","A","1","1","F">>, <<"K","N","R","I","1","1","F">>,
                  <<"A","B","C","D","E","1","1">>, <<"A","B","C","1","1">>, <<"k","n","r","i","1","1">>, <<"K","n","r","i","1","1">>, <<"K","N","R","I","1">>, <<"K","N","R","I","1","1","1">>, <<"K","N","R","I","1","2">>,
                  <<"K","N","R","1","1","1">>, <<"1","1","K","N","R","I">>, <<>>}

ClassInit ==
    /\ adapter \in {"avenue", "inter_global", "ibkr", "br_nota"}
    /\ doc \in [symbol : IF adapter = "br_nota" THEN BrSymbols ELSE ClassSymbols,
                description : IF adapter = "br_nota" THEN {<<>>} ELSE ClassDescriptions]
    /\ pc = "symbol"
    /\ full_text = <<>> /\ all_tables = <<>>
    /\ broker = None /\ note_date = None /\ note_number = None
    /\ raw_operations = <<>> /\ operations = <<>> /\ fees = None
    /\ warnings = <<>> /\ calls = <<>> /\ exc = None /\ result = None
    /\ upload = None /\ status = None
    /\ globals = ModuleTables /\ served = <<>>

\* l.21-30 of avenue.py
AvClassify ==
    /\ adapter = "avenue" /\ pc = "symbol"
    /\ result' = Some(av_identify_asset_type(doc.symbol, doc.description))
    /\ pc' = "classified"
    /\ UNCHANGED <<Request, full_text, all_tables, broker, note_date, note_number,
                   raw_operations, operations, fees, warnings, calls, exc>>

\* l.17-26 of inter_global.py
IgClassify ==
    /\ adapter = "inter_global" /\ pc = "symbol"
    /\ result' = Some(ig_identify_asset_type(doc.symbol, doc.description))
    /\ pc' = "classified"
    /\ UNCHANGED <<Request, full_text, all_tables, broker, note_date, note_number,
                   raw_operations, operations, fees, warnings, calls, exc>>

\* l.17-32 of ibkr.py
IbClassify ==
    /\ adapter = "ibkr" /\ pc = "symbol"
    /\ result' = Some(identify_asset_type_from_category(doc.description, doc.symbol))
    /\ pc' = "classified"
    /\ UNCHANGED <<Request, full_text, all_tables, broker, note_date, note_number,
                   raw_operations, operations, fees, warnings, calls, exc>>

\* l.99-105 of br_nota.py
BrClassify ==
    /\ adapter = "br_nota" /\ pc = "symbol"
    /\ result' = Some(br_identify_asset_type(doc.symbol))
    /\ pc' = "classified"
    /\ UNCHANGED <<Request, full_text, all_tables, broker, note_date, note_number,
                   raw_operations, operations, fees, warnings, calls, exc>>

ClassNext == AvClassify \/ IgClassify \/ IbClassify \/ BrClassify

ClassSpec == ClassInit /\ [][ClassNext]_vars

----------------------------------------------------------------------------
(* One process serving several parses *)

\* a process serves at most MaxParses parses
MaxParses == 3

\* the parses that run between two parses of the same request
OtherRequests ==
    {[adapter |-> "br_nota",
      doc |-> PdfRequest(Opened, <<[text |-> <<"P","E","T","R","4",SP,"C",SP,"1","0","0",SP,"3","5",",","5","0",SP,"3","5","5","0",",","0","0",NL,"c","o","r","r","e","t","a","g","e","m",":",SP,"4",",","9","0">>,
                                    tables |-> <<>>]>>, FALSE)],
     [adapter |-> "generic",
      doc |-> PdfRequest(Opened,
                         <<[text |-> <<>>,
                            tables |-> << <<<<<<"A","A","P","L">>, <<"1","0">>, <<"5">>, <<"5","4">>>>,
                                            <<<<"P","E","T","R","4",SP,"v","e","n","d","a">>, <<"1",".","0","0","0",",","5","0">>, <<"2">>>>>> >>]>>,
                         FALSE)]}

\* the request of the first parse of the process
FirstRequest ==
    IF served = <<>> THEN [adapter |-> adapter, doc |-> doc]
    ELSE [adapter |-> served[1].adapter, doc |-> served[1].doc]

\* the warnings list kept from one call of the entry point to the next, as a
\* module-level list would be
NextRequestKeepingWarnings ==
    /\ pc = "done"
    /\ Len(served) + 1 < MaxParses
    /\ \A i \in DOMAIN served : served[i].adapter # adapter \/ served[i].doc # doc
    /\ served' = Append(served, [adapter |-> adapter, doc |-> doc, result |-> result])
    /\ \E r \in {FirstRequest} \cup (IF served = <<>> THEN OtherRequests ELSE {}) :
          /\ adapter' = r.adapter /\ doc' = r.doc
          /\ pc' = IF r.adapter = "ibkr" THEN "dispatch" ELSE "open"
    /\ full_text' = <<>> /\ all_tables' = <<>>
    /\ broker' = None /\ note_date' = None /\ note_number' = None
    /\ raw_operations' = <<>> /\ operations' = <<>> /\ fees' = None
    /\ calls' = <<>> /\ exc' = None /\ result' = None
    /\ UNCHANGED <<warnings, upload, status, globals>>

\* the entry point returned and is called again, for the first request of the
\* process or for another one: every name the entry point binds is bound
\* anew by the call (br_nota.py l.426-438 and the like), the module-level
\* objects stay as they are
NextRequest ==
    /\ pc = "done"
    /\ Len(served) + 1 < MaxParses
    /\ \A i \in DOMAIN served : served[i].adapter # adapter \/ served[i].doc # doc
    /\ served' = Append(served, [adapter |-> adapter, doc |-> doc, result |-> result])
    /\ \E r \in {FirstRequest} \cup (IF served = <<>> THEN OtherRequests ELSE {}) :
          /\ adapter' = r.adapter /\ doc' = r.doc
          /\ pc' = IF r.adapter = "ibkr" THEN "dispatch" ELSE "open"
    /\ full_text' = <<>> /\ all_tables' = <<>>
    /\ broker' = None /\ note_date' = None /\ note_number' = None
    /\ raw_operations' = <<>> /\ operations' = <<>> /\ fees' = None
    /\ warnings' = <<>> /\ calls' = <<>> /\ exc' = None /\ result' = None
    /\ UNCHANGED <<upload, status, globals>>

ProcessNext == Next \/ NextRequest

ProcessSpec == Init /\ [][ProcessNext]_vars

----------------------------------------------------------------------------
(* Properties *)

\* the ParseResponse the entry point returned
R == result[1]
Returned == pc = "done"
\* the entry point returned from its last statement: no fault reached the
\* boundary handler and the password branch was not taken
ReturnedNormally == Returned /\ exc = None /\ Len(calls) > 1

HasWarning(w) == \E i \in DOMAIN R.warnings : R.warnings[i] = w
HasDetail(desc) == \E i \in DOMAIN R.warnings : R.warnings[i].detail = desc

\* the positions of an entry point before its return
Positions(a) ==
    IF a = "br_nota" THEN {"open", "pages", "identify", "date", "rico", "table", "text",
                           "convert", "fees", "return", "except"}
    ELSE IF a = "avenue" THEN {"open", "pages", "identify", "date", "extract", "convert",
                               "return", "except"}
    ELSE IF a = "inter_global" THEN {"open", "pages", "identify", "date", "text", "tables",
                                     "convert", "return", "except"}
    ELSE IF a = "generic" THEN {"open", "pages", "extract", "date", "return", "except"}
    ELSE {"dispatch", "open", "pages", "scan", "fees", "return", "except",
          "decode", "rows", "csv_return", "csv_except"}

\* C1: every entry point ends by returning a ParseResponse: before the return
\* it is at one of its steps, a fault raised inside it is held by the boundary
\* handler and nowhere else, and the result returned for a fault has
\* success=false with the fault's description among its warnings.
C1Theorem ==
    /\ ~Returned => result = None /\ pc \in Positions(adapter)
    /\ ~Returned /\ exc # None => pc \in {"except", "csv_except"}
    /\ Returned => result # None /\ DOMAIN R = DOMAIN Response0
    /\ Returned /\ exc # None => ~R.success /\ HasDetail(exc[1])

\* a candidate failed Operation validation and the entry point returned
C1Witness == Returned /\ exc = Some(ValidationError) /\ ~R.success

BrChain == {"parse_rico_format", "parse_operations_from_table", "parse_operations_from_text"}
IgChain == {"parse_inter_global_text", "parse_inter_global_tables"}

\* the strategies invoked, in the order of their invocation
StrategyCalls == Filter(calls, BrChain \cup IgChain)

\* what a strategy yields for the document of the request
StrategyOutput(name) ==
    IF name = "parse_rico_format" THEN parse_rico_format(all_tables, full_text)
    ELSE IF name = "parse_operations_from_table" THEN parse_operations_from_table(all_tables)
    ELSE IF name = "parse_operations_from_text" THEN parse_operations_from_text(full_text)
    ELSE IF name = "parse_inter_global_text" THEN parse_inter_global_text(full_text)
    ELSE parse_inter_global_tables(all_tables, full_text)

\* what an operation and a candidate say about the trade
OpCore(op) == <<op.ticker, op.type, op.quantity, op.price, op.total>>
CandCore(c) ==
    <<IF adapter = "br_nota" THEN c.ticker ELSE c.symbol, c.type, c.quantity, c.price, c.total>>
Cores(cands) == [i \in DOMAIN cands |-> CandCore(cands[i])]
ResultCores == [i \in DOMAIN R.operations |-> OpCore(R.operations[i])]

\* C2: in br_nota.parse and inter_global.parse only the last strategy invoked
\* can have yielded candidates, no strategy is invoked twice, and the
\* operations returned are the candidates of that last strategy in its order.
C2Theorem ==
    ReturnedNormally /\ adapter \in {"br_nota", "inter_global"} =>
        /\ StrategyCalls # <<>>
        /\ \A i \in DOMAIN StrategyCalls :
              /\ i < Len(StrategyCalls) => StrategyOutput(StrategyCalls[i]) = <<>>
              /\ \A j \in DOMAIN StrategyCalls : i # j => StrategyCalls[i] # StrategyCalls[j]
        /\ ResultCores = Cores(StrategyOutput(StrategyCalls[Len(StrategyCalls)]))

\* the table strategy yielded, and the text strategy would have yielded
\* different candidates
C2Witness ==
    /\ ReturnedNormally /\ adapter = "br_nota"
    /\ StrategyCalls = <<"parse_operations_from_table">>
    /\ R.operations # <<>>
    /\ parse_operations_from_text(full_text) # <<>>
    /\ Cores(parse_operations_from_text(full_text)) # ResultCores

\* C3: a result with success=true holds an operation or names a broker.
C3Claim == Returned => (R.success => R.operations # <<>> \/ R.broker # None)

EncryptedSignal ==
    /\ doc.open.kind = "open_error"
    /\ \/ Contains(Lower(doc.open.desc), <<"p","a","s","s","w","o","r","d">>)
       \/ Contains(Lower(doc.open.desc), <<"e","n","c","r","y","p","t","e","d">>)

\* C4: when opening the document fails with the encrypted-document signal,
\* br_nota, avenue and inter_global return success=false, no operation and
\* the password-required warning, and no step after the opening is performed.
C4Theorem ==
    Returned /\ adapter \in {"br_nota", "avenue", "inter_global"} /\ EncryptedSignal =>
        /\ ~R.success /\ R.operations = <<>>
        /\ HasWarning(IF adapter = "br_nota" THEN BrPasswordWarning ELSE UsPasswordWarning)
        /\ calls = <<"open">>
        /\ broker = None /\ note_date = None /\ raw_operations = <<>> /\ fees = None

C4Witness ==
    /\ Returned /\ adapter = "avenue" /\ doc.open.desc = <<"F","i","l","e",SP,"i","s",SP,"e","n","c","r","y","p","t","e","d">>
    /\ R.warnings = <<UsPasswordWarning>>

NoneFoundWarnings ==
    {W("No operations found. The PDF format may not be supported."),
     W("No transactions found. The PDF format may have changed."),
     W("No transactions found in the document"),
     W("No operations could be extracted. Please check the PDF format."),
     W("No trades found in PDF. Consider using CSV export for better results.")}

\* C5: a result returned without operations carries a warning that none
\* was found.
C5Claim ==
    ReturnedNormally /\ R.operations = <<>> => \E w \in NoneFoundWarnings : HasWarning(w)

OnlyLine(line) ==
    /\ doc.open.kind = "ok"
    /\ \/ doc.pages[1].text = line /\ doc.pages[1].tables = <<>>
       \/ doc.pages[1].text = <<>> /\ doc.pages[1].tables = << <<SplitWS(line)>> >>

\* C6: the document whose only content is "PETR4 C 100 35,50 3550,00", as a
\* text line or as a table row, yields one operation: PETR4, buy, 100 at
\* 35.50, total 3550.00, BRL.
C6Claim ==
    Returned /\ adapter = "br_nota" /\ OnlyLine(<<"P","E","T","R","4",SP,"C",SP,"1","0","0",SP,"3","5",",","5","0",SP,"3","5","5","0",",","0","0">>) =>
        /\ ResultCores = << <<<<"P","E","T","R","4">>, "buy", 100 * Scale, 3550, 355000>> >>
        /\ R.operations[1].currency = "BRL"

\* C7: the text "AAPL Sell 50 185.50" given to inter_global yields one
\* operation: AAPL, sell, 50 at 185.50, total 9275.00.
C7Theorem ==
    /\ Returned /\ adapter = "inter_global" /\ doc.open.kind = "ok"
    /\ doc.pages[1].text = <<"A","A","P","L",SP,"S","e","l","l",SP,"5","0",SP,"1","8","5",".","5","0">>
    => /\ StrategyCalls = <<"parse_inter_global_text">>
       /\ ResultCores = << <<<<"A","A","P","L">>, "sell", 50 * Scale, 18550, 927500>> >>

C7Witness ==
    /\ Returned /\ adapter = "inter_global" /\ full_text = <<"A","A","P","L",SP,"S","e","l","l",SP,"5","0",SP,"1","8","5",".","5","0",NL>>
    /\ Len(R.operations) = 1 /\ R.operations[1].total = 927500

\* |total - quantity * price| / max(total, 1) <= 0.01, over hundredths
Consistent(op) ==
    Abs(Scale * op.total - op.quantity * op.price)
        <= (IF op.total > Scale THEN op.total ELSE Scale)

\* C8: every operation of a result has a total consistent with quantity
\* times price.
C8Claim == Returned => \A i \in DOMAIN R.operations : Consistent(R.operations[i])

\* C9: the total of a fee breakdown returned is the sum of its seven named
\* fields.
C9Theorem ==
    Returned /\ R.fees # None =>
        R.fees[1].total = R.fees[1].brokerage + R.fees[1].settlement + R.fees[1].emoluments
                          + R.fees[1].custody + R.fees[1].iss + R.fees[1].irrf + R.fees[1].other

\* the text labels 5,15 as a total and the breakdown holds the one fee named
C9Witness ==
    /\ Returned /\ adapter = "br_nota" /\ Contains(full_text, <<"T","o","t","a","l",SP,"5",",","1","5">>)
    /\ R.fees # None /\ R.fees[1].iss = 25 /\ R.fees[1].total = 25

\* what variant k of category c sets for the lowercased text: None when it
\* does not match or its token does not parse
VariantValue(c, k) ==
    fee_value(Lower(full_text), fee_patterns[c].patterns[k],
              Search(fee_patterns[c].patterns[k], Lower(full_text)))

\* the value of the first of the variants good, 0 when there is none
FirstOf(c, good) == IF good = {} THEN 0 ELSE VariantValue(c, Least(good))[1]

\* the value of the first variant of category c that matches and parses
FirstVariantValue(c) ==
    FirstOf(c, {k \in DOMAIN fee_patterns[c].patterns : VariantValue(c, k) # None})

\* C10: extract_fees sets each category from the first variant, in declared
\* order, that matches the lowercased text and parses, and leaves it 0
\* otherwise; "corretagem: 4,90" alone gives brokerage 4.90 and total 4.90.
C10Theorem ==
    adapter = "br_nota" /\ pc = "return" =>
        /\ \A c \in DOMAIN fee_patterns : fees[1][fee_patterns[c].fee_type] = FirstVariantValue(c)
        /\ fees[1].custody = 0 /\ fees[1].other = 0
        /\ full_text = <<"c","o","r","r","e","t","a","g","e","m",":",SP,"4",",","9","0",NL>> => fees[1].brokerage = 490 /\ fees[1].total = 490

\* both variants of brokerage match with different values and the first set it
C10Witness ==
    /\ adapter = "br_nota" /\ pc = "return"
    /\ full_text = <<"c","o","r","r","e","t","a","g","e","m",":",SP,"4",",","9","0",NL,"t","a","x","a",SP,"d","e",SP,"c","o","r","r","e","t","a","g","e","m",":",SP,"5",",","0","0",NL>>
    /\ fees[1].brokerage = 490

\* the entries of BROKER_PATTERNS with a signature in the lowercased text
Institutions ==
    {k \in DOMAIN BROKER_PATTERNS :
        \E j \in DOMAIN BROKER_PATTERNS[k].patterns :
            Contains(Lower(full_text), BROKER_PATTERNS[k].patterns[j])}

\* C11: identify_broker returns the institution declared first among those
\* with a signature in the lowercased text, wherever the signatures stand in
\* the text, and None when no signature occurs.
C11Theorem ==
    adapter = "br_nota" /\ pc = "date" =>
        broker = IF Institutions = {} THEN None
                 ELSE Some(BROKER_PATTERNS[Least(Institutions)].broker)

\* a signature of XP stands in the text before one of Clear, and Clear is
\* declared first
C11Witness ==
    /\ adapter = "br_nota" /\ pc = "date"
    /\ full_text = <<"X","P",SP,"I","N","V","E","S","T","I","M","E","N","T","O","S",SP,"-",SP,"C","L","E","A","R",SP,"C","O","R","R","E","T","O","R","A",NL>>
    /\ Institutions = {1, 2} /\ broker = Some("Clear")

\* the document was read and its text holds no signature of the adapter
NoSignature ==
    /\ doc.open.kind = "ok"
    /\ IF adapter = "br_nota" THEN Institutions = {}
       ELSE IF adapter = "avenue"
            THEN /\ ~Contains(Lower(full_text), <<"a","v","e","n","u","e">>)
                 /\ ~Contains(Lower(full_text), <<"a","p","e","x",SP,"c","l","e","a","r","i","n","g">>)
       ELSE /\ ~Contains(Lower(full_text), <<"i","n","t","e","r",SP,"c","o",SP,"s","e","c","u","r","i","t","i","e","s">>)
            /\ ~Contains(Lower(full_text), <<"i","n","t","e","r",".","c","o">>)
            /\ ~Contains(Lower(full_text), <<"t","r","a","n","s","a","c","t","i","o","n",SP,"c","o","n","f","i","r","m","a","t","i","o","n">>)

FamilyWarnings ==
    {W("Could not identify broker"),
     W("Could not confirm this is an Avenue document"),
     W("Could not confirm this is an Inter Global document")}

\* C12: a document whose text holds no signature of br_nota, avenue or
\* inter_global gives a result with the family-not-identified warning, with
\* success=false or no operation, and no operation is extracted from it.
C12Claim ==
    Returned /\ adapter \in {"br_nota", "avenue", "inter_global"} /\ NoSignature =>
        /\ \E w \in FamilyWarnings : HasWarning(w)
        /\ ~R.success \/ R.operations = <<>>
        /\ R.operations = <<>>

\* C13: a token of the Brazilian or of the US convention, with or without a
\* decimal part, is converted to the value it represents: by the rule of the
\* rightmost separator in generic, by strip-dots and comma-to-dot in br_nota.
C13Claim == pc = "normalized" => result = Some(Some(doc.value))

\* the kind the category keywords of the classifier give the description,
\* None when it holds none of them
KeywordKind(a, description) ==
    IF Contains(Lower(description), <<"e","t","f">>) THEN Some("etf_us")
    ELSE IF Contains(Lower(description), <<"r","e","i","t">>) THEN Some("reit_us")
    ELSE IF a # "ibkr" THEN None
    ELSE IF Contains(Lower(description), <<"o","p","t","i","o","n">>) THEN Some("option")
    ELSE IF Contains(Lower(description), <<"f","u","t","u","r","e">>) THEN Some("future")
    ELSE IF Contains(Lower(description), <<"b","o","n","d">>) \/ Contains(Lower(description), <<"t","r","e","a","s","u","r","y">>)
         THEN Some("bond")
    ELSE None

\* the known-symbol allowlist of the classifier
Allowlist(a) == IF a = "avenue" THEN US_ETFS ELSE IF a = "inter_global" THEN IG_ETFS ELSE {}

\* C14: in avenue, inter_global and ibkr a category keyword of the
\* description decides the kind before the allowlist, the allowlist decides
\* before the symbol-length rule, and "other" is returned when no rule matches.
C14Claim ==
    pc = "classified" /\ adapter \in {"avenue", "inter_global", "ibkr"} =>
        /\ KeywordKind(adapter, doc.description) # None =>
              result = KeywordKind(adapter, doc.description)
        /\ KeywordKind(adapter, doc.description) = None /\ doc.symbol \in Allowlist(adapter) =>
              result = Some("etf_us")
        /\ /\ KeywordKind(adapter, doc.description) = None
           /\ doc.symbol \notin Allowlist(adapter)
           => result = Some(IF adapter = "ibkr" /\ Len(doc.symbol) > 10 THEN "option" ELSE "other")

\* four uppercase letters followed by 11
FundShape(ticker) ==
    /\ Len(ticker) = 6
    /\ \A i \in 1..4 : ticker[i] \in Upper
    /\ ticker[5] = "1" /\ ticker[6] = "1"

\* C15: identify_asset_type of br_nota gives ETF_BR to a ticker of the ETF
\* allowlist, REIT_BR to any other ticker of four uppercase letters followed
\* by 11, and STOCK_BR to every other ticker.
C15Theorem ==
    pc = "classified" /\ adapter = "br_nota" =>
        result = Some(IF doc.symbol \in BR_ETFS THEN "etf_br"
                      ELSE IF FundShape(doc.symbol) THEN "reit_br"
                      ELSE "stock_br")

\* an allowlisted ticker has the fund shape and is classified ETF_BR
C15Witness ==
    /\ pc = "classified" /\ adapter = "br_nota"
    /\ doc.symbol = <<"B","O","V","A","1","1">> /\ FundShape(doc.symbol) /\ result = Some("etf_br")

\* the sum of the totals of the operations of the result
OperationTotals == SumSeq([i \in DOMAIN R.operations |-> R.operations[i].total])

\* the families whose net value includes the costs
CostInclusive == {"br_nota", "ibkr"}

\* C16: on the non-fault path net_value is the sum of the totals of the
\* operations returned, plus fees.total in br_nota and ibkr (CSV and PDF) and
\* alone in avenue, inter_global and generic; with no operation it is
\* fees.total, respectively 0.
C16Theorem ==
    ReturnedNormally =>
        /\ R.fees # None
        /\ R.net_value =
              Some(OperationTotals + (IF adapter \in CostInclusive THEN R.fees[1].total ELSE 0))
        /\ R.operations = <<>> =>
              R.net_value = Some(IF adapter \in CostInclusive THEN R.fees[1].total ELSE 0)
        /\ adapter \notin CostInclusive => R.fees[1].total = 0

\* br_nota returned one operation of 3550.00 and a brokerage fee of 4.90
C16Witness ==
    /\ ReturnedNormally /\ adapter = "br_nota"
    /\ Len(R.operations) = 1 /\ OperationTotals = 355000
    /\ R.fees[1].total = 490 /\ R.net_value = Some(355490)

\* the number a cell of a CSV row holds
CellValue(cell) == ParseFloat(Replace(cell[1], ",", <<>>))[1]

\* the cell is present, parses and is not zero
NonZeroCell(cell) ==
    /\ cell # None
    /\ ParseFloat(Replace(cell[1], ",", <<>>)) # None
    /\ CellValue(cell) # 0

\* a data row with a non-empty Symbol and parseable non-zero Quantity, price,
\* proceeds and fee
TradeRow(row) ==
    /\ row["Symbol"] # None /\ Strip(row["Symbol"][1]) # <<>>
    /\ NonZeroCell(row["Quantity"]) /\ NonZeroCell(row["T. Price"])
    /\ NonZeroCell(row["Proceeds"]) /\ NonZeroCell(row["Comm/Fee"])

\* the export was decoded and every data row of it is such a row
TradeRowsOnly ==
    doc.is_csv /\ doc.open.kind = "ok" /\ \A i \in DOMAIN doc.rows : TradeRow(doc.rows[i])

\* one operation for each row in row order, buy or sell by the sign of the
\* Quantity, with the absolute Quantity and Proceeds; success, the broker,
\* and the sum of the absolute fees
CsvResultOfRows ==
    /\ Len(R.operations) = Len(doc.rows)
    /\ \A i \in DOMAIN doc.rows :
          /\ R.operations[i].ticker = Strip(doc.rows[i]["Symbol"][1])
          /\ R.operations[i].type =
                IF CellValue(doc.rows[i]["Quantity"]) > 0 THEN "buy" ELSE "sell"
          /\ R.operations[i].quantity = Abs(CellValue(doc.rows[i]["Quantity"]))
          /\ R.operations[i].total = Abs(CellValue(doc.rows[i]["Proceeds"]))
    /\ R.success /\ R.broker = Some("Interactive Brokers")
    /\ R.fees # None
    /\ R.fees[1].brokerage =
          SumSeq([i \in DOMAIN doc.rows |-> Abs(CellValue(doc.rows[i]["Comm/Fee"]))])

GoodName ==
    /\ upload[1].filename # None
    /\ \/ EndsWith(Lower(upload[1].filename[1]), <<".","p","d","f">>)
       \/ adapter = "ibkr" /\ EndsWith(Lower(upload[1].filename[1]), <<".","c","s","v">>)

\* the steps of the request layer, and the positions inside it
LayerCalls == {"validate_file", "read"}
LayerPositions == {"validate", "read", "rejected"}

\* C18: an upload whose name has no allowed extension is rejected with 400
\* before its contents are read and before any parser step; otherwise
\* contents over 10 MB are rejected with 413 and empty contents with 400;
\* only an upload passing the three checks reaches the parser, and the
\* result of the parser is returned with status 200.
C18Theorem ==
    /\ ~GoodName =>
          /\ pc \in {"validate", "rejected"}
          /\ pc = "rejected" =>
                status # None /\ status[1].status_code = 400 /\ calls = <<"validate_file">>
    /\ GoodName /\ upload[1].size > 10 * 1024 * 1024 =>
          /\ pc \in LayerPositions
          /\ pc = "rejected" => status # None /\ status[1].status_code = 413
    /\ GoodName /\ upload[1].size = 0 =>
          /\ pc \in LayerPositions
          /\ pc = "rejected" => status # None /\ status[1].status_code = 400
    /\ GoodName /\ upload[1].size > 0 /\ upload[1].size <= 10 * 1024 * 1024 => pc # "rejected"
    /\ pc \in LayerPositions => result = None /\ \A i \in DOMAIN calls : calls[i] \in LayerCalls
    /\ pc \notin LayerPositions =>
          /\ GoodName /\ upload[1].size > 0 /\ upload[1].size <= 10 * 1024 * 1024
          /\ SubSeq(calls, 1, 2) = <<"validate_file", "read">>
    /\ pc \notin {"rejected", "responded"} => status = None
    /\ pc = "responded" => result # None /\ status # None /\ status[1].status_code = 200

\* a result with success=false and a warning was returned with status 200
C18Witness ==
    /\ pc = "responded" /\ status[1].status_code = 200
    /\ ~R.success /\ R.warnings # <<>>
    /\ upload[1].filename = Some(<<"N","O","T","A",".","P","D","F">>)

\* the parses of this process that served the request being served now
SameRequest == {i \in DOMAIN served : served[i].adapter = adapter /\ served[i].doc = doc}

NoOperationsWarnings ==
    NoneFoundWarnings \cup {W("No operations found in tables, trying text parsing...")}

\* C20: when an earlier strategy of the chain of br_nota or inter_global
\* yielded no candidate and a later one yielded some, the result holds no
\* warning about the earlier strategy; a no-operations warning is in the
\* result only when every strategy of the chain yielded none.
C20Claim ==
    ReturnedNormally /\ adapter \in {"br_nota", "inter_global"} =>
        /\ Len(StrategyCalls) > 1 /\ raw_operations # <<>> =>
              \A w \in NoOperationsWarnings : ~HasWarning(w)
        /\ (\E w \in NoOperationsWarnings : HasWarning(w)) => raw_operations = <<>>

\* an operation with a resolved symbol, a positive quantity and a positive
\* price or a positive total
Accepted(op) == op.ticker # <<>> /\ op.quantity > 0 /\ (op.price > 0 \/ op.total > 0)

\* C21: every operation of a returned result has a resolved non-empty symbol,
\* quantity > 0 and at least one of price and total strictly positive; a
\* candidate with neither a positive price nor a positive total is not
\* emitted.
C21Claim == Returned => \A i \in DOMAIN R.operations : Accepted(R.operations[i])

\* a recognized sell marker in a row or line: a standalone V, " v ", "venda"
\* or "sell"
RecognizedSell(text) ==
    \/ Matched(Search(STANDALONE_V, text))
    \/ Contains(Lower(text), <<SP,"v",SP>>) \/ Contains(Lower(text), <<"v","e","n","d","a">>)
    \/ Contains(Lower(text), <<"s","e","l","l">>)

\* the candidates of one row or line have side sell only under a marker of
\* that row or line, and side buy without one
SideOf(cands, text) ==
    \A i \in DOMAIN cands :
        /\ cands[i].type = "sell" => RecognizedSell(text)
        /\ ~RecognizedSell(text) => cands[i].type = "buy"

Invoked(name) == \E i \in DOMAIN calls : calls[i] = name
Rows(tables) == UNION {Range(tables[t]) : t \in DOMAIN tables}

\* C22: in the Rico, table and text strategies of br_nota and the table
\* strategy of generic, a candidate of a row or line without a recognized sell
\* marker has side buy, and a candidate has side sell only when its row or
\* line carries such a marker; so a returned sell operation comes from a
\* document with a marker.
C22Theorem ==
    /\ adapter = "br_nota" /\ Invoked("parse_rico_format") =>
           \A line \in Range(Lines(full_text)) : SideOf(rico_line(line), line)
    /\ adapter = "br_nota" /\ Invoked("parse_operations_from_table") =>
           \A row \in Rows(all_tables) : SideOf(br_table_row(row), RowText(row))
    /\ adapter = "br_nota" /\ Invoked("parse_operations_from_text") =>
           \A line \in Range(Lines(full_text)) : SideOf(br_text_line(line), line)
    /\ adapter = "generic" /\ Invoked("extract_operations_from_tables") =>
           \A row \in Rows(LongTables(all_tables)) : SideOf(gen_row(row), RowText(row))
    /\ adapter \in {"br_nota", "generic"} /\ Returned =>
           \A i \in DOMAIN R.operations :
               R.operations[i].type = "sell" =>
                   \/ \E line \in Range(Lines(full_text)) : RecognizedSell(line)
                   \/ \E row \in Rows(all_tables) : RecognizedSell(RowText(row))

\* a result holding a sell from a marked row and a buy from an unmarked one
C22Witness ==
    /\ adapter \in {"br_nota", "generic"} /\ Returned
    /\ \E i \in DOMAIN R.operations : R.operations[i].type = "sell"
    /\ \E i \in DOMAIN R.operations : R.operations[i].type = "buy"

\* the rows of the document that parse and validate on their own
IbGoodRows == Filter(Flatten(all_tables), {row \in Rows(all_tables) : ib_row(row, TRUE).fatal = None})
CsvGoodRows ==
    Filter(doc.rows, {row \in Range(doc.rows) :
                         csv_row(row).fatal = None /\ csv_row(row).warned = <<>>})
\* the operations of a generic row that pass Operation validation
GenGoodOps(row) == Filter(gen_row(row), {op \in Range(gen_row(row)) : OperationValid(op)})

CoresOf(ops) == [i \in DOMAIN ops |-> OpCore(ops[i])]

\* what the rows that parse and validate yield when every other row is skipped
RecoveredOperations ==
    IF adapter = "generic" THEN CoresOf(EachRow(LongTables(all_tables), GenGoodOps))
    ELSE IF doc.is_csv
         THEN CoresOf(Flatten([i \in DOMAIN CsvGoodRows |-> csv_row(CsvGoodRows[i]).ops]))
         ELSE CoresOf(ib_rows(IbGoodRows, 1, [in_trades_section |-> FALSE,
                                              operations |-> <<>>, fatal |-> None]).operations)

RowWarning == \E i \in DOMAIN R.warnings : R.warnings[i].text = "Error parsing row: "

\* C23: when a token or a row of an IBKR PDF, an IBKR CSV or a generic table
\* cannot be parsed or validated, only it is skipped: the result holds the
\* operations of every other row, and carries no warning for the skipped row
\* as long as some row yields an operation.
C23Claim ==
    Returned /\ adapter \in {"ibkr", "generic"} /\ doc.open = Opened =>
        /\ ResultCores = RecoveredOperations
        /\ RecoveredOperations # <<>> => ~RowWarning

\* the grammar matches of a row: those of each pattern of TICKER_PATTERNS in
\* turn, each pattern's matches from left to right
GrammarMatches(row_text) ==
    Flatten([k \in DOMAIN TICKER_PATTERNS |-> FindAll(TICKER_PATTERNS[k], row_text)])

\* the first grammar match that is not blacklisted, the scan going on after
\* every blacklisted one
ScannedTicker(row_text) ==
    FirstIn(GrammarMatches(row_text), Range(GrammarMatches(row_text)) \ TICKER_BLACKLIST)

\* C24: in generic.extract_operations_from_tables a blacklisted grammar match
\* is discarded and the scan of the row goes on with the following matches,
\* so the row resolves to its first match that is not blacklisted; no
\* operation of a result has a blacklisted ticker.
C24Claim ==
    adapter = "generic" /\ Invoked("extract_operations_from_tables") =>
        /\ \A row \in Rows(LongTables(all_tables)) :
               gen_ticker_from(RowText(row), 1) = ScannedTicker(RowText(row))
        /\ Returned => \A i \in DOMAIN R.operations : R.operations[i].ticker \notin TICKER_BLACKLIST

\* the places of STOCK_NAME_TO_TICKER whose key occurs in the lowercased text
KeysIn(text) == {k \in DOMAIN STOCK_NAME_TO_TICKER : Contains(Lower(text), STOCK_NAME_TO_TICKER[k].name)}

\* the symbol of the earliest declared entry whose key occurs, or none
FirstDeclared(text) ==
    IF KeysIn(text) = {} THEN None ELSE Some(STOCK_NAME_TO_TICKER[Least(KeysIn(text))].ticker)

\* the symbol the claim gives a Rico line: the direct match, else the lookup
Resolved(line) ==
    IF Matched(Search(BR_TICKER_PATTERN, line)) THEN Some(Group0(line, Search(BR_TICKER_PATTERN, line)))
    ELSE FirstDeclared(line)

\* the line carries a Rico market marker
RicoMarked(line) == Contains(Lower(line), <<"b","o","v","e","s","p","a">>) \/ Contains(Lower(line), <<"f","r","a","c","i","o","n","a","r","i","o">>)

\* the number tokens of a line
NumberTokens(line) == FindAll(RICO_NUMBERS, line)

\* the places of the tokens that are positive numbers other than 1
KeptOf(found) ==
    {i \in DOMAIN found :
        /\ rico_float(found[i]) # None
        /\ rico_float(found[i])[1] > 0
        /\ rico_float(found[i])[1] # 1 * Scale}

\* the n-th of those numbers
KeptNumber(found, kept, n) ==
    rico_float(found[CHOOSE i \in kept : Cardinality({j \in kept : j < i}) = n - 1])[1]

\* there are three such numbers and the third is within 1 of the product of
\* the first two
ConsistentOf(found, kept) ==
    /\ Cardinality(kept) >= 3
    /\ Abs(KeptNumber(found, kept, 3) - Mul(KeptNumber(found, kept, 1), KeptNumber(found, kept, 2)))
           < 1 * Scale
RicoConsistent(line) == ConsistentOf(NumberTokens(line), KeptOf(NumberTokens(line)))

\* the operation takes the first three of those numbers
Taken(op, found, kept) ==
    /\ Cardinality(kept) >= 3
    /\ op.quantity = KeptNumber(found, kept, 1)
    /\ op.price = KeptNumber(found, kept, 2)
    /\ op.total = KeptNumber(found, kept, 3)

\* C25: on a Rico line a direct ticker match is used when present and the
\* name lookup only when there is none; the lookup, in name_to_ticker and in
\* the Rico strategy, gives the symbol of the first entry in declaration
\* order whose key occurs in the lowercased text, and nothing (the line is
\* skipped) when no key occurs.
C25Theorem ==
    /\ pc = "named" => result = FirstDeclared(doc.line)
    /\ pc = "rico" =>
        /\ \A i \in DOMAIN result : Some(result[i].ticker) = Resolved(doc.line)
        /\ Resolved(doc.line) = None => result = <<>>
        /\ RicoMarked(doc.line) /\ Resolved(doc.line) # None /\ RicoConsistent(doc.line) => Len(result) = 1

\* a line naming Itausa, where the keys itau and itausa both occur: the
\* earlier declared itau gives the symbol, alone and on a Rico line
C25Witness ==
    /\ pc \in {"named", "rico"}
    /\ doc.line = <<"1","-","B","O","V","E","S","P","A",SP,"C",SP,"I","T","A","U","S","A",SP,"P","N",SP,"1","0",SP,"1","1",",","3","0",SP,"1","1","3",",","0","0",SP,"D">>
    /\ Cardinality(KeysIn(doc.line)) = 2
    /\ pc = "named" => result = Some(<<"I","T","U","B","4">>)
    /\ pc = "rico" => Len(result) = 1 /\ result[1].ticker = <<"I","T","U","B","4">>

\* strategy a was invoked before strategy b in this parse
Before(a, b) == \E i, j \in DOMAIN calls : i < j /\ calls[i] = a /\ calls[j] = b

\* the text-scanning strategy of br_nota ran only after its table strategy
\* had run and yielded nothing
BrTextLast ==
    Invoked("parse_operations_from_text") =>
        /\ Before("parse_operations_from_table", "parse_operations_from_text")
        /\ parse_operations_from_table(all_tables) = <<>>

\* the text-scanning strategy of inter_global ran only after its table
\* strategy had run and yielded nothing
IgTextLast ==
    Invoked("parse_inter_global_text") =>
        /\ Before("parse_inter_global_tables", "parse_inter_global_text")
        /\ parse_inter_global_tables(all_tables, full_text) = <<>>

\* C26: in br_nota and inter_global the line-based text-scanning strategy is
\* invoked only after every table strategy of the adapter has yielded zero
\* candidates.
C26Claim == BrTextLast /\ IgTextLast

\* s occurs in t as a subsequence: every element of s, in the order of s
Embedded(s, t) ==
    \E f \in [DOMAIN s -> DOMAIN t] :
        /\ \A i \in DOMAIN s : t[f[i]] = s[i]
        /\ \A i, j \in DOMAIN s : i < j => f[i] < f[j]

\* C27: every warning added during a parse is present, in the order it was
\* added, in the result the parse returns, also when a later step of the
\* parse faults and the result has success=false.
C27Claim == Returned => Embedded(warnings, R.warnings)

\* the caller set the debug flag; generic.parse and ibkr.parse take none
DebugRequested == adapter \in {"br_nota", "avenue", "inter_global"} /\ doc.debug

\* C28: a returned result contains raw_text only when the caller set the debug
\* flag, and then raw_text is the prefix of the extracted page text of at most
\* 2000 characters; a parse without a debug request, every generic.parse call
\* included, returns raw_text absent.
C28Claim ==
    Returned =>
        /\ R.raw_text # None => DebugRequested /\ R.raw_text = Some(Prefix(full_text, 2000))
        /\ ~DebugRequested => R.raw_text = None

\* the rows of all tables in order, and those the loop has visited
AllRows == Flatten(all_tables)
Visited == 1..Len(calls)

\* a header row of the trades section
TradesHeader(row) ==
    /\ \E i \in DOMAIN row : row[i] # <<>>
    /\ Contains(Lower(RowText(row)), <<"t","r","a","d","e","s">>)
    /\ ~Contains(Lower(RowText(row)), <<"s","u","m","m","a","r","y">>)

\* the visited header rows
Headers == {k \in Visited : TradesHeader(AllRows[k])}

\* what a visited row appends when it follows the first header and is not a
\* header itself
AfterHeader(k) ==
    IF Headers = {} \/ k <= Least(Headers) \/ TradesHeader(AllRows[k]) THEN <<>>
    ELSE ib_row(AllRows[k], TRUE).ops

\* C29: in the row loop of ibkr.parse_pdf no operation comes from a row before
\* the first row whose text contains "trades" and not "summary"; every such
\* header row sets the latch and emits nothing; the latch, once set, stays set
\* across later rows and tables; without a header row there is no operation.
C29Theorem ==
    pc = "rows" =>
        /\ result.in_trades_section <=> Headers # {}
        /\ Headers = {} => result.operations = <<>>
        /\ result.operations = Flatten([k \in Visited |-> AfterHeader(k)])

\* a trade row and a header in one table, a trade row in a second table:
\* only the last row gives an operation
C29Witness ==
    /\ pc = "rows" /\ Len(all_tables) = 2 /\ Len(calls) = 3
    /\ AllRows = << <<<<"A","A","P","L">>, <<"-","1","0">>, <<"5",".","5","0">>, <<"5","6",".","0","0">>>>, <<<<"T","r","a","d","e","s">>>>, <<<<"M","S","F","T">>, <<"5">>, <<"2">>>> >>
    /\ Len(all_tables[1]) = 2
    /\ Len(result.operations) = 1 /\ result.operations[1].ticker = <<"M","S","F","T">>

\* C30: every operation of parse_rico_format comes from a line containing
\* "bovespa" or "fracionario" with a resolved ticker, takes quantity, price and
\* total as the first three positive numbers of the line after removing every
\* number equal to 1, and has |total - quantity * price| < 1; so none of the
\* three is 1, and a line with fewer than three such numbers or failing the
\* check emits nothing.
C30Theorem ==
    pc = "rico" =>
        /\ \A i \in DOMAIN result :
              /\ RicoMarked(doc.line) /\ Resolved(doc.line) # None
              /\ Taken(result[i], NumberTokens(doc.line), KeptOf(NumberTokens(doc.line)))
              /\ Abs(result[i].total - Mul(result[i].quantity, result[i].price)) < 1 * Scale
              /\ 1 * Scale \notin {result[i].quantity, result[i].price, result[i].total}
        /\ ~RicoConsistent(doc.line) => result = <<>>

\* the line of the format's example: the 1 of 1-BOVESPA is a number of the
\* line and is passed over, the operation takes 10, 11,30 and 113,00
C30Witness ==
    /\ pc = "rico"
    /\ doc.line = <<"1","-","B","O","V","E","S","P","A",SP,"C",SP,"C","E","M","I","G",SP,"P","N",SP,"N","1",SP,"1","0",SP,"1","1",",","3","0",SP,"1","1","3",",","0","0",SP,"D">>
    /\ rico_float(NumberTokens(doc.line)[1]) = Some(1 * Scale)
    /\ 1 \notin KeptOf(NumberTokens(doc.line))
    /\ Len(result) = 1
    /\ result[1].quantity = 10 * Scale /\ result[1].price = 1130 /\ result[1].total = 113 * Scale

====
